---- MODULE Spec2Model ----
(***************************************************************************)
(* Planar triangulation core of shine-math: the face/vertex graph, the     *)
(* topology queries (vi, opposite_edge, find_edge_by_vertex), the edge     *)
(* circulator and the crossing iterator.                                   *)
(*                                                                         *)
(* Vertices are 1..Len(pos), the infinite vertex is Infinite.  Faces are   *)
(* 1..Len(faces); a face holds three vertex indices and three neighbour    *)
(* face indices, both indexed by a Rot3 in 0..2.  The neighbour at r is    *)
(* the face across the edge opposite corner r.                             *)
(*                                                                         *)
(* Two side-car containers are modelled next to it, each with a            *)
(* specification of its own: the SparseMatrix of the graph crate and the   *)
(* reference counted Store of shine-stdext.                                *)
(***************************************************************************)
EXTENDS Integers, Sequences, FiniteSets, TLC

VARIABLES
    dim,      \* Triangulation::dimension(): -1 empty, 0, 1, 2
    pos,      \* vertex arena: position of every finite vertex
    vface,    \* vertex arena: Vertex::face(), the face circulation starts at
    faces,    \* face arena
    edits,    \* number of edge flips and Vertex::set_face calls so far
    iter,     \* the CrossingIterator, or its absence
    out,      \* what Iterator::next has returned so far, in order
    nones,    \* number of pulls that returned None
    ret,      \* the last call of a query or accessor: its arguments and result
    \* SparseMatrix (graph/src/smat/sparsematrix.rs)
    nnz,        \* SparseMatrix::nnz
    outer_mask, \* SparseMatrix::outer_mask: the rows that hold an item
    mask,       \* SparseMatrix::mask: the index mask, (row, column) in order
    store,      \* SparseMatrix::store: the items, in the order of the mask
    added,      \* what the client added and has not removed or cleared since
    \* unnamed Store (shine-stdext/src/unnamedstore.rs)
    arena,      \* ExclusiveData::arena: the allocated entries, Entry::ref_count
    resources,  \* SharedData::resources
    requests,   \* ExclusiveData::requests
    indices,    \* the Index handles alive in any thread, per entry
    guard,      \* the guard held on the store: none, read or write
    drain       \* the position of a running drain_unused, and what it saw

smat_vars == <<nnz, outer_mask, mask, store, added>>
store_vars == <<arena, resources, requests, indices, guard, drain>>
tri_vars == <<dim, pos, vface, faces, edits, iter, out, nones>>

vars == <<dim, pos, vface, faces, edits, iter, out, nones, ret,
          nnz, outer_mask, mask, store, added,
          arena, resources, requests, indices, guard, drain>>

----------------------------------------------------------------------------
(* Bounds of the model *)

MaxEdits == 1
MaxNones == 2
(* the largest face arena a neighbour link is overwritten in *)
MaxBrokenFaces == 6
(* the most events an iterator is pulled for *)
MaxOut == 9
(* the slots of the store's arena *)
MaxEntries == 2
(* the most Index handles alive for one entry *)
MaxIndices == 2

(* The positions a client writes through p_mut: onto the first hull corner *)
(* and onto the hull edge beyond the points inserted on it.                *)
MovedTo == { <<0, 0>>, <<3, 0>> }

(* The positions the client inserts, in this order: the three hull corners *)
(* and then points inside the hull or on its edges.                        *)
Points == << <<0, 0>>, <<4, 0>>, <<0, 4>>,
             <<1, 0>>, <<0, 2>>, <<3, 1>>, <<2, 1>>, <<2, 0>> >>

(* No query has been called on the triangulation as it stands *)
NoRet == [op |-> "none", arg |-> <<>>, val |-> <<>>]

----------------------------------------------------------------------------
(* types.rs: Rot3, VertexIndex, FaceIndex *)

Rot3 == 0..2
increment(r) == (r + 1) % 3
decrement(r) == (r + 2) % 3

Infinite == 0
is_infinite_vertex(v) == v = Infinite
is_finite_vertex(v) == v # Infinite

At(t, r) == t[r + 1]
Put(t, r, x) == [t EXCEPT ![r + 1] = x]

(* graph: Face::vertex, Face::neighbor, Face::get_neighbor_index,          *)
(* Face::get_vertex_index.  An index lookup is the first position that     *)
(* holds the value, or NoRot.                                              *)
NoRot == 3
FirstIndex(t, x) ==
    IF t[1] = x THEN 0 ELSE IF t[2] = x THEN 1 ELSE IF t[3] = x THEN 2 ELSE NoRot

vertex(fs, f, r) == At(fs[f].v, r)
neighbor(fs, f, r) == At(fs[f].n, r)
get_neighbor_index(fs, f, g) == FirstIndex(fs[f].n, g)
get_vertex_index(fs, f, v) == FirstIndex(fs[f].v, v)

----------------------------------------------------------------------------
(* geometry2: exact predicates on integer positions *)

Cross(p0, p1, p2) ==
    (p1[1] - p0[1]) * (p2[2] - p0[2]) - (p1[2] - p0[2]) * (p2[1] - p0[1])
Dot(p0, p1, p2) ==
    (p1[1] - p0[1]) * (p2[1] - p0[1]) + (p1[2] - p0[2]) * (p2[2] - p0[2])

orientation_triangle(p0, p1, p2) ==
    LET c == Cross(p0, p1, p2)
    IN  IF c > 0 THEN "CCW" ELSE IF c < 0 THEN "CW" ELSE "Collinear"

test_collinear_points(p0, p1, p) ==
    LET d == Dot(p0, p1, p)
        l == Dot(p0, p1, p1)
    IN  IF d < 0 THEN "Before"
        ELSE IF d = 0 THEN "First"
        ELSE IF d < l THEN "Between"
        ELSE IF d = l THEN "Second"
        ELSE "After"

----------------------------------------------------------------------------
(* builder: the mutations that create the graph the core navigates *)

(* A face: three vertices, three neighbours and a constraint tag per edge, *)
(* none of which the builder modelled here sets.                           *)
Face(a, b, c, n0, n1, n2) ==
    [v |-> <<a, b, c>>, n |-> <<n0, n1, n2>>, constraint |-> <<0, 0, 0>>]

(* Replace the neighbour link of face f that points to old by new. *)
Relink(fs, f, old, new) ==
    [fs EXCEPT ![f].n = Put(@, get_neighbor_index(fs, f, old), new)]

(* Vertex::set_face for every finite corner of the faces in fseq, in order *)
RECURSIVE SetFaces(_, _, _)
SetFaces(vf, fs, fseq) ==
    IF fseq = <<>> THEN vf
    ELSE LET f == Head(fseq)
             vf1 == [i \in DOMAIN vf |->
                        IF \E r \in Rot3 : vertex(fs, f, r) = i THEN f ELSE vf[i]]
         IN  SetFaces(vf1, fs, Tail(fseq))

(* The first two vertices: dimension 0 and 1, no triangle yet. *)
AddFirstVertices ==
    /\ iter.st = "none"
    /\ ret.op = "none"
    /\ dim < 1
    /\ pos' = Append(pos, Points[Len(pos) + 1])
    /\ vface' = Append(vface, 0)
    /\ dim' = dim + 1
    /\ UNCHANGED <<faces, edits, iter, out, nones, ret>>
    /\ UNCHANGED <<smat_vars, store_vars>>

(* The third vertex, not collinear with the first two: one finite face     *)
(* and the three infinite faces that close the hull.                       *)
AddThirdVertex ==
    /\ iter.st = "none"
    /\ ret.op = "none"
    /\ dim = 1
    /\ orientation_triangle(pos[1], pos[2], Points[3]) = "CCW"
    /\ pos' = Append(pos, Points[3])
    /\ faces' = << Face(1, 2, 3, 3, 4, 2),
                   Face(2, 1, Infinite, 4, 3, 1),
                   Face(3, 2, Infinite, 2, 4, 1),
                   Face(1, 3, Infinite, 3, 2, 1) >>
    /\ vface' = <<1, 1, 1>>
    /\ dim' = 2
    /\ UNCHANGED <<edits, iter, out, nones, ret>>
    /\ UNCHANGED <<smat_vars, store_vars>>

IsFiniteFace(fs, f) == \A r \in Rot3 : is_finite_vertex(vertex(fs, f, r))

P(v) == pos[v]

StrictlyInside(p, f) ==
    /\ IsFiniteFace(faces, f)
    /\ \A r \in Rot3 :
         orientation_triangle(P(vertex(faces, f, increment(r))),
                              P(vertex(faces, f, decrement(r))), p) = "CCW"

OnEdge(p, f, r) ==
    LET b == vertex(faces, f, increment(r))
        c == vertex(faces, f, decrement(r))
    IN  /\ is_finite_vertex(b) /\ is_finite_vertex(c)
        /\ orientation_triangle(P(b), P(c), p) = "Collinear"
        /\ test_collinear_points(P(b), P(c), p) = "Between"

(* A vertex strictly inside finite face f: the face is split in three. *)
SplitFace(p, f) ==
    LET a == vertex(faces, f, 0)
        b == vertex(faces, f, 1)
        c == vertex(faces, f, 2)
        na == neighbor(faces, f, 0)
        nb == neighbor(faces, f, 1)
        nc == neighbor(faces, f, 2)
        w == Len(pos) + 1
        f1 == Len(faces) + 1
        f2 == Len(faces) + 2
        fs1 == Relink(Relink(faces, na, f, f1), nb, f, f2)
        fs2 == [fs1 EXCEPT ![f] = Face(a, b, w, f1, f2, nc)]
                  \o << Face(b, c, w, f2, f, na), Face(c, a, w, f, f1, nb) >>
    IN  /\ faces' = fs2
        /\ pos' = Append(pos, p)
        /\ vface' = SetFaces(Append(vface, f), fs2, <<f, f1, f2>>)

(* A vertex strictly inside the edge r of face f: both faces on the edge   *)
(* are split in two.                                                       *)
SplitEdge(p, f, r) ==
    LET g == neighbor(faces, f, r)
        s == get_neighbor_index(faces, g, f)
        a == vertex(faces, f, r)
        b == vertex(faces, f, increment(r))
        c == vertex(faces, f, decrement(r))
        d == vertex(faces, g, s)
        nfab == neighbor(faces, f, decrement(r))
        nfca == neighbor(faces, f, increment(r))
        ngdc == neighbor(faces, g, decrement(s))
        ngbd == neighbor(faces, g, increment(s))
        w == Len(pos) + 1
        f1 == Len(faces) + 1
        g1 == Len(faces) + 2
        fs1 == Relink(Relink(faces, nfca, f, f1), ngbd, g, g1)
        fs2 == [fs1 EXCEPT ![f] = Face(a, b, w, g1, f1, nfab),
                           ![g] = Face(d, c, w, f1, g1, ngdc)]
                  \o << Face(a, w, c, g, nfca, f), Face(d, w, b, f, ngbd, g) >>
    IN  /\ faces' = fs2
        /\ pos' = Append(pos, p)
        /\ vface' = SetFaces(Append(vface, f), fs2, <<f, g, f1, g1>>)

AddVertex ==
    /\ iter.st = "none"
    /\ ret.op = "none"
    /\ dim = 2
    /\ Len(pos) < Len(Points)
    /\ \E p \in {Points[Len(pos) + 1]} :
         \/ \E f \in DOMAIN faces : StrictlyInside(p, f) /\ SplitFace(p, f)
         \/ \E f \in DOMAIN faces : \E r \in Rot3 :
              /\ OnEdge(p, f, r)
              /\ f < neighbor(faces, f, r)
              /\ SplitEdge(p, f, r)
    /\ UNCHANGED <<dim, edits, iter, out, nones, ret>>
    /\ UNCHANGED <<smat_vars, store_vars>>

(* Flip the edge r of face f, shared with g: the diagonal of the strictly  *)
(* convex quad a, b, d, c is replaced by the other diagonal.               *)
FlipEdge(f, r) ==
    LET g == neighbor(faces, f, r)
        s == get_neighbor_index(faces, g, f)
        a == vertex(faces, f, r)
        b == vertex(faces, f, increment(r))
        c == vertex(faces, f, decrement(r))
        d == vertex(faces, g, s)
        nfab == neighbor(faces, f, decrement(r))
        nfca == neighbor(faces, f, increment(r))
        ngdc == neighbor(faces, g, decrement(s))
        ngbd == neighbor(faces, g, increment(s))
        fs1 == Relink(Relink(faces, nfca, f, g), ngbd, g, f)
        fs2 == [fs1 EXCEPT ![f] = Face(a, b, d, ngbd, g, nfab),
                           ![g] = Face(a, d, c, ngdc, nfca, f)]
    IN  /\ IsFiniteFace(faces, f) /\ IsFiniteFace(faces, g)
        /\ f < g
        /\ orientation_triangle(P(a), P(b), P(d)) = "CCW"
        /\ orientation_triangle(P(a), P(d), P(c)) = "CCW"
        /\ faces' = fs2
        /\ vface' = SetFaces(vface, fs2, <<f, g>>)

Flip ==
    /\ iter.st = "none"
    /\ ret.op = "none"
    /\ dim = 2
    /\ edits < MaxEdits
    /\ \E f \in DOMAIN faces : \E r \in Rot3 : FlipEdge(f, r)
    /\ edits' = edits + 1
    /\ UNCHANGED <<dim, pos, iter, out, nones, ret>>
    /\ UNCHANGED <<smat_vars, store_vars>>

----------------------------------------------------------------------------
(* query: TopologyQuery *)

(* VertexClue and TopologyQuery::vi *)
ClueVertexIndex(v) == [clue |-> "VertexIndex", vertex |-> v, face |-> 0, rot |-> 0]
ClueFaceVertex(f, r) == [clue |-> "FaceVertex", vertex |-> 0, face |-> f, rot |-> r]
ClueEdgeStart(f, e) == [clue |-> "EdgeStart", vertex |-> 0, face |-> f, rot |-> e]
ClueEdgeEnd(f, e) == [clue |-> "EdgeEnd", vertex |-> 0, face |-> f, rot |-> e]

(* vi with the two ends of an edge clue exchanged *)
vi_swapped_ends(clue) ==
    CASE clue.clue = "VertexIndex" -> clue.vertex
      [] clue.clue = "FaceVertex" -> vertex(faces, clue.face, clue.rot)
      [] clue.clue = "EdgeStart" -> vertex(faces, clue.face, decrement(clue.rot))
      [] clue.clue = "EdgeEnd" -> vertex(faces, clue.face, increment(clue.rot))

vi(clue) ==
    CASE clue.clue = "VertexIndex" -> clue.vertex
      [] clue.clue = "FaceVertex" -> vertex(faces, clue.face, clue.rot)
      [] clue.clue = "EdgeStart" -> vertex(faces, clue.face, increment(clue.rot))
      [] clue.clue = "EdgeEnd" -> vertex(faces, clue.face, decrement(clue.rot))

p(clue) == pos[vi(clue)]

(* TopologyQuery::v: the vertex a clue names *)
v_ref(clue) == [position |-> pos[vi(clue)], face |-> vface[vi(clue)]]

(* p_mut that takes every face-relative clue for the corner at its        *)
(* rotation                                                               *)
p_mut_corner(clue, q) ==
    LET x == IF clue.clue = "VertexIndex" THEN clue.vertex
             ELSE vertex(faces, clue.face, clue.rot)
    IN  [pos EXCEPT ![x] = q]

(* TopologyQuery::p_mut and a write of q through the reference returned: *)
(* the vertex arena after it                                              *)
p_mut(clue, q) == [pos EXCEPT ![vi(clue)] = q]

FaceEdge(f, e) == [face |-> f, edge |-> e]

(* TopologyQuery::c *)
constraint_of(edge) == At(faces[edge.face].constraint, edge.edge)

Unwrap == [face |-> 0, edge |-> NoRot]

(* opposite_edge that keeps the rotation instead of looking the twin up *)
opposite_edge_same_rot(edge) ==
    FaceEdge(neighbor(faces, edge.face, edge.edge), edge.edge)

(* opposite_edge that looks up the rotation of the shared vertex in the   *)
(* neighbour instead of the rotation of the link back                     *)
opposite_edge_by_vertex(edge) ==
    LET nf == neighbor(faces, edge.face, edge.edge)
        i == get_vertex_index(faces, nf, vi(ClueEdgeStart(edge.face, edge.edge)))
    IN  IF i = NoRot THEN Unwrap ELSE FaceEdge(nf, i)

(* opposite_edge with unwrap_or(edge.edge) in place of unwrap() *)
opposite_edge_unwrap_or(edge) ==
    LET nf == neighbor(faces, edge.face, edge.edge)
        i == get_neighbor_index(faces, nf, edge.face)
    IN  FaceEdge(nf, IF i = NoRot THEN edge.edge ELSE i)

(* opposite_edge that names the edge after the twin in the neighbour *)
opposite_edge_next_rot(edge) ==
    LET nf == neighbor(faces, edge.face, edge.edge)
        i == get_neighbor_index(faces, nf, edge.face)
    IN  IF i = NoRot THEN Unwrap ELSE FaceEdge(nf, increment(i))

(* TopologyQuery::opposite_edge; Unwrap is the failed unwrap() *)
opposite_edge(edge) ==
    LET nf == neighbor(faces, edge.face, edge.edge)
        i == get_neighbor_index(faces, nf, edge.face)
    IN  IF i = NoRot THEN Unwrap ELSE FaceEdge(nf, i)

----------------------------------------------------------------------------
(* traverse: EdgeCirculator around a base vertex *)

circulator_new(base) ==
    LET f == vface[base]
    IN  FaceEdge(f, decrement(get_vertex_index(faces, f, base)))

end_vertex(circ) == vi(ClueEdgeEnd(circ.face, circ.edge))

(* advance_cw that pivots over the other edge of the face at the base *)
advance_cw_other_edge(circ, base) ==
    LET f == neighbor(faces, circ.face, decrement(circ.edge))
    IN  FaceEdge(f, decrement(get_vertex_index(faces, f, base)))

advance_cw(circ, base) ==
    LET f == neighbor(faces, circ.face, circ.edge)
    IN  FaceEdge(f, decrement(get_vertex_index(faces, f, base)))

(* advance_ccw that keeps the rotation it had in the face it leaves *)
advance_ccw_keep_rot(circ, base) ==
    FaceEdge(neighbor(faces, circ.face, decrement(circ.edge)), circ.edge)

(* advance_ccw that names the edge opposite the base in the face entered *)
advance_ccw_at_corner(circ, base) ==
    LET f == neighbor(faces, circ.face, decrement(circ.edge))
    IN  FaceEdge(f, get_vertex_index(faces, f, base))

advance_ccw(circ, base) ==
    LET f == neighbor(faces, circ.face, decrement(circ.edge))
    IN  FaceEdge(f, decrement(get_vertex_index(faces, f, base)))

(* Vertex::set_face: the builder moves the face of a vertex on to the next *)
(* face around it.                                                         *)
SetFace ==
    /\ iter.st = "none"
    /\ ret.op = "none"
    /\ dim = 2
    /\ edits < MaxEdits
    /\ \E v \in DOMAIN pos :
         vface' = [vface EXCEPT ![v] = advance_ccw(circulator_new(v), v).face]
    /\ edits' = edits + 1
    /\ UNCHANGED <<dim, pos, faces, iter, out, nones, ret>>
    /\ UNCHANGED <<smat_vars, store_vars>>

(* A caller stepping the circulator until it is back on the edge it        *)
(* started at: the edges after one step, two steps, and so on.  A walk     *)
(* that has not closed after `fuel` steps is given up.                     *)
RECURSIVE revolve(_, _, _, _, _, _)
revolve(base, start, circ, ccw, walked, fuel) ==
    LET nx == IF ccw THEN advance_ccw(circ, base) ELSE advance_cw(circ, base)
    IN  IF nx = start \/ fuel = 0 \/ nx.edge \notin Rot3 THEN Append(walked, nx)
        ELSE revolve(base, start, nx, ccw, Append(walked, nx), fuel - 1)

(* EdgeCirculator::next_ccw: the current edge, and the circulator advanced *)
next_ccw(circ, base) == [edge |-> circ, circ |-> advance_ccw(circ, base)]

----------------------------------------------------------------------------
(* query: TopologyQuery::find_edge_by_vertex *)

(* Option<FaceEdge>::None, and a circulation that never meets its start *)
NoEdge == [face |-> 0, edge |-> NoRot]
Endless == [face |-> 0 - 1, edge |-> NoRot]

RECURSIVE find_edge_loop(_, _, _, _, _, _)
find_edge_loop(a, b, start, edge, circ, fuel) ==
    IF vi(ClueEdgeEnd(edge.face, edge.edge)) = b THEN edge
    ELSE LET nx == next_ccw(circ, a)
         IN  IF nx.edge = start THEN NoEdge
             ELSE IF fuel = 0 THEN Endless
             ELSE find_edge_loop(a, b, start, nx.edge, nx.circ, fuel - 1)

(* The circulator steps of find_edge_by_vertex: the calls of next_ccw made *)
(* in the loop, after the one that fetched the starting edge; -1 for a     *)
(* loop that is still running when the fuel is spent.                      *)
RECURSIVE find_edge_steps(_, _, _, _, _, _, _)
find_edge_steps(a, b, start, edge, circ, steps, fuel) ==
    IF vi(ClueEdgeEnd(edge.face, edge.edge)) = b THEN steps
    ELSE LET nx == next_ccw(circ, a)
         IN  IF nx.edge = start THEN steps + 1
             ELSE IF fuel = 0 THEN 0 - 1
             ELSE find_edge_steps(a, b, start, nx.edge, nx.circ, steps + 1, fuel - 1)

(* the count of a loop that compares the edge with the first edge of the   *)
(* face arena, not with the edge it started at                             *)
find_edge_count_fixed_start(a, b) ==
    LET first == next_ccw(circulator_new(a), a)
    IN  find_edge_steps(a, b, FaceEdge(1, 0), first.edge, first.circ, 0,
                        3 * Len(faces) + 3)

find_edge_count(a, b) ==
    LET first == next_ccw(circulator_new(a), a)
    IN  find_edge_steps(a, b, first.edge, first.edge, first.circ, 0,
                        3 * Len(faces) + 3)

(* find_edge_by_vertex that tests for the full revolution before it       *)
(* compares the edge: the starting edge is never compared                 *)
find_edge_by_vertex_skip_start(a, b) ==
    LET first == next_ccw(circulator_new(a), a)
        second == next_ccw(first.circ, a)
    IN  IF second.edge = first.edge THEN NoEdge
        ELSE find_edge_loop(a, b, first.edge, second.edge, second.circ,
                            3 * Len(faces) + 3)

(* find_edge_by_vertex that breaks with the edge it starts at, whatever   *)
(* the end of that edge                                                   *)
find_edge_by_vertex_first(a, b) ==
    next_ccw(circulator_new(a), a).edge

(* find_edge_by_vertex with the circulator it starts from given: the      *)
(* loop of lines 81-92                                                    *)
find_edge_from(a, b, circ) ==
    LET first == next_ccw(circ, a)
    IN  find_edge_loop(a, b, first.edge, first.edge, first.circ, 3 * Len(faces) + 3)

find_edge_by_vertex(a, b) ==
    LET first == next_ccw(circulator_new(a), a)
    IN  find_edge_loop(a, b, first.edge, first.edge, first.circ, 3 * Len(faces) + 3)

----------------------------------------------------------------------------
(* traverse: Crossing and CrossingIterator *)

Start(f, r) == [kind |-> "Start", face |-> f, rot |-> r]
End(f, r) == [kind |-> "End", face |-> f, rot |-> r]
CoincidentEdge(f, r) == [kind |-> "CoincidentEdge", face |-> f, rot |-> r]
PositiveEdge(f, r) == [kind |-> "PositiveEdge", face |-> f, rot |-> r]
NegativeEdge(f, r) == [kind |-> "NegativeEdge", face |-> f, rot |-> r]
None == [kind |-> "None", face |-> 0, rot |-> 0]
(* a panic of the search (a failed assertion, a failed unwrap(), an index *)
(* outside the vertex arena), and a search loop that does not return      *)
Panic(why) == [kind |-> why, face |-> 0, rot |-> 0]
PanicKinds == {"PanicFirst", "PanicSecond", "PanicAfter", "PanicUnwrap", "PanicIndex"}
Diverge == [kind |-> "Diverge", face |-> 0, rot |-> 0]

(* Steps a search loop is followed for before it is reported as Diverge:   *)
(* more than three revolutions around any vertex.                          *)
LoopFuel == 3 * Len(faces) + 3

(* far_orientation that takes every collinear far vertex for a backward   *)
(* edge                                                                    *)
far_orientation_no_between(v0, v1, far, start_vertex) ==
    LET orient == orientation_triangle(pos[v0], pos[v1], pos[far])
    IN  IF far = start_vertex \/ orient = "Collinear" THEN "CCW" ELSE orient

(* far_orientation that takes a collinear far vertex behind v0 for one on  *)
(* the segment                                                             *)
far_orientation_before_between(v0, v1, far, start_vertex) ==
    IF far = start_vertex THEN "CCW"
    ELSE LET orient == orientation_triangle(pos[v0], pos[v1], pos[far])
         IN  IF orient = "Collinear"
             THEN LET collinear_test == test_collinear_points(pos[v0], pos[v1], pos[far])
                  IN  IF collinear_test = "Before" THEN "Between" ELSE collinear_test
             ELSE orient

(* far_orientation that picks clockwise for the avoided start vertex *)
far_orientation_start_cw(v0, v1, far, start_vertex) ==
    IF far = start_vertex THEN "CW"
    ELSE LET orient == orientation_triangle(pos[v0], pos[v1], pos[far])
         IN  IF orient = "Collinear"
             THEN LET collinear_test == test_collinear_points(pos[v0], pos[v1], pos[far])
                  IN  IF collinear_test = "Before" THEN "CCW" ELSE collinear_test
             ELSE orient

(* far_orientation that takes a collinear far vertex off the segment for   *)
(* a backward edge wherever it lies                                        *)
far_orientation_tolerant(v0, v1, far, start_vertex) ==
    IF far = start_vertex THEN "CCW"
    ELSE LET orient == orientation_triangle(pos[v0], pos[v1], pos[far])
         IN  IF orient = "Collinear"
             THEN IF test_collinear_points(pos[v0], pos[v1], pos[far]) = "Between"
                  THEN "Between" ELSE "CCW"
             ELSE orient

(* far_orientation that takes a collinear far vertex behind v0 for one    *)
(* beyond v1                                                               *)
far_orientation_before_after(v0, v1, far, start_vertex) ==
    IF far = start_vertex THEN "CCW"
    ELSE LET orient == orientation_triangle(pos[v0], pos[v1], pos[far])
         IN  IF orient = "Collinear"
             THEN LET collinear_test == test_collinear_points(pos[v0], pos[v1], pos[far])
                  IN  IF collinear_test = "Before" THEN "After" ELSE collinear_test
             ELSE orient

(* search_vertex, lines 100-139: the orientation of the far vertex, or the *)
(* collinear case that ends the search.                                    *)
far_orientation(v0, v1, far, start_vertex) ==
    IF far = start_vertex THEN "CCW"
    ELSE LET p0 == p(ClueVertexIndex(v0))
             p1 == p(ClueVertexIndex(v1))
             pp == p(ClueVertexIndex(far))
             orient == orientation_triangle(p0, p1, pp)
         IN  IF orient = "Collinear"
             THEN LET collinear_test == test_collinear_points(p0, p1, pp)
                  IN  IF collinear_test = "Before" THEN "CCW" ELSE collinear_test
             ELSE orient

(* the Start that names the corner at the rotation of the circulator's edge *)
crossing_start_same_rot(circulator, base_vertex, orientation) ==
    LET c == IF orientation = "CCW"
             THEN advance_cw(circulator, base_vertex)
             ELSE circulator
    IN  Start(c.face, c.edge)

(* the Start without the step back after a counter-clockwise flip *)
crossing_start_no_back(circulator, base_vertex, orientation) ==
    Start(circulator.face, increment(circulator.edge))

(* the Start that steps back whichever way the orientation has flipped *)
crossing_start_back_always(circulator, base_vertex, orientation) ==
    LET c == advance_cw(circulator, base_vertex)
    IN  Start(c.face, increment(c.edge))

(* search_vertex, lines 147-157: the orientation has changed, the edge     *)
(* opposite the base vertex in the face between the two edges is crossed.  *)
crossing_start(circulator, base_vertex, orientation) ==
    LET c == IF orientation = "CCW"
             THEN advance_cw(circulator, base_vertex)
             ELSE circulator
    IN  Start(c.face, increment(c.edge))

RECURSIVE search_vertex_loop(_, _, _, _, _, _, _)
search_vertex_loop(v0, v1, base_vertex, start_vertex, start_orientation, circulator, fuel) ==
    LET far == end_vertex(circulator)
    IN  IF fuel = 0 THEN Diverge
        ELSE IF is_infinite_vertex(far) \/ far = v0
        THEN search_vertex_loop(v0, v1, base_vertex, start_vertex, start_orientation,
                                advance_cw(circulator, base_vertex), fuel - 1)
        ELSE IF far = v1
        THEN CoincidentEdge(circulator.face, circulator.edge)
        ELSE LET orientation == far_orientation(v0, v1, far, start_vertex)
                 so == IF start_orientation = "Collinear"
                       THEN orientation ELSE start_orientation
             IN  CASE orientation = "Between" ->
                        CoincidentEdge(circulator.face, circulator.edge)
                   [] orientation = "First" -> Panic("PanicFirst")
                   [] orientation = "Second" -> Panic("PanicSecond")
                   [] orientation = "After" -> Panic("PanicAfter")
                   [] orientation \in {"CCW", "CW"} /\ so # orientation ->
                        crossing_start(circulator, base_vertex, orientation)
                   [] orientation \in {"CCW", "CW"} /\ so = orientation ->
                        search_vertex_loop(v0, v1, base_vertex, start_vertex, so,
                            IF so = "CCW" THEN advance_cw(circulator, base_vertex)
                                          ELSE advance_ccw(circulator, base_vertex),
                            fuel - 1)

(* search_vertex, lines 83-158: the far vertices the loop reads from the   *)
(* circulator, up to the one that ends the search.                         *)
RECURSIVE circulated(_, _, _, _, _, _, _)
circulated(v0, v1, base_vertex, start_vertex, start_orientation, circulator, fuel) ==
    LET far == end_vertex(circulator)
    IN  IF fuel = 0 THEN {}
        ELSE IF is_infinite_vertex(far) \/ far = v0
        THEN {far} \cup circulated(v0, v1, base_vertex, start_vertex, start_orientation,
                                   advance_cw(circulator, base_vertex), fuel - 1)
        ELSE IF far = v1 THEN {far}
        ELSE LET orientation == far_orientation(v0, v1, far, start_vertex)
                 so == IF start_orientation = "Collinear"
                       THEN orientation ELSE start_orientation
             IN  IF orientation \in {"CCW", "CW"} /\ so = orientation
                 THEN {far} \cup circulated(v0, v1, base_vertex, start_vertex, so,
                            IF so = "CCW" THEN advance_cw(circulator, base_vertex)
                                          ELSE advance_ccw(circulator, base_vertex),
                            fuel - 1)
                 ELSE {far}

(* search_vertex, lines 83-164: the steps of the circulator (advance_cw    *)
(* and advance_ccw calls) the loop makes from the edge it starts at until  *)
(* it returns or panics; -1 for a loop still running when the fuel is      *)
(* spent.                                                                  *)
RECURSIVE search_vertex_steps(_, _, _, _, _, _, _, _)
search_vertex_steps(v0, v1, base_vertex, start_vertex, start_orientation, circulator, steps, fuel) ==
    LET far == end_vertex(circulator)
    IN  IF fuel = 0 THEN 0 - 1
        ELSE IF is_infinite_vertex(far) \/ far = v0
        THEN search_vertex_steps(v0, v1, base_vertex, start_vertex, start_orientation,
                                 advance_cw(circulator, base_vertex), steps + 1, fuel - 1)
        ELSE IF far = v1 THEN steps
        ELSE LET orientation == far_orientation(v0, v1, far, start_vertex)
                 so == IF start_orientation = "Collinear"
                       THEN orientation ELSE start_orientation
             IN  IF orientation \notin {"CCW", "CW"} THEN steps
                 ELSE IF so # orientation
                 THEN IF orientation = "CCW" THEN steps + 1 ELSE steps
                 ELSE search_vertex_steps(v0, v1, base_vertex, start_vertex, so,
                            IF so = "CCW" THEN advance_cw(circulator, base_vertex)
                                          ELSE advance_ccw(circulator, base_vertex),
                            steps + 1, fuel - 1)

(* search_vertex without the early return at v1 *)
search_vertex_no_return(v0, v1, base_vertex, start_vertex) ==
    IF base_vertex \notin DOMAIN vface THEN Panic("PanicIndex")
    ELSE search_vertex_loop(v0, v1, base_vertex, start_vertex, "Collinear",
                       circulator_new(base_vertex), LoopFuel)

search_vertex(v0, v1, base_vertex, start_vertex) ==
    IF base_vertex \notin DOMAIN vface THEN Panic("PanicIndex")
    ELSE IF base_vertex = v1 THEN None
    ELSE search_vertex_loop(v0, v1, base_vertex, start_vertex, "Collinear",
                            circulator_new(base_vertex), LoopFuel)

(* search_edge that takes the rotation of the crossed edge for the far    *)
(* corner of the neighbour                                                *)
search_edge_same_rot(v0, v1, start_face, start_edge) ==
    LET face == neighbor(faces, start_face, start_edge)
        vertex_index == start_edge
        far == vertex(faces, face, vertex_index)
    IN  IF far = v1 THEN End(face, vertex_index)
        ELSE IF far \notin DOMAIN pos THEN Panic("PanicIndex")
        ELSE LET orientation == orientation_triangle(pos[v0], pos[v1], pos[far])
             IN  IF orientation = "Collinear" THEN End(face, vertex_index)
                 ELSE IF orientation = "CCW"
                 THEN NegativeEdge(face, increment(vertex_index))
                 ELSE PositiveEdge(face, decrement(vertex_index))

(* search_edge that reports the End one corner further *)
search_edge_end_next(v0, v1, start_face, start_edge) ==
    LET face == neighbor(faces, start_face, start_edge)
        vertex_index == get_neighbor_index(faces, face, start_face)
        far == vertex(faces, face, vertex_index)
    IN  IF vertex_index = NoRot THEN Panic("PanicUnwrap")
        ELSE IF far = v1 THEN End(face, increment(vertex_index))
        ELSE IF far \notin DOMAIN pos THEN Panic("PanicIndex")
        ELSE LET orientation == orientation_triangle(pos[v0], pos[v1], pos[far])
             IN  IF orientation = "Collinear" THEN End(face, increment(vertex_index))
                 ELSE IF orientation = "CCW"
                 THEN NegativeEdge(face, increment(vertex_index))
                 ELSE PositiveEdge(face, decrement(vertex_index))

(* search_edge with the signs of the two sides exchanged *)
search_edge_swapped_sign(v0, v1, start_face, start_edge) ==
    LET face == neighbor(faces, start_face, start_edge)
        vertex_index == get_neighbor_index(faces, face, start_face)
        far == vertex(faces, face, vertex_index)
    IN  IF vertex_index = NoRot THEN Panic("PanicUnwrap")
        ELSE IF far = v1 THEN End(face, vertex_index)
        ELSE IF far \notin DOMAIN pos THEN Panic("PanicIndex")
        ELSE LET orientation == orientation_triangle(pos[v0], pos[v1], pos[far])
             IN  IF orientation = "Collinear" THEN End(face, vertex_index)
                 ELSE IF orientation = "CCW"
                 THEN PositiveEdge(face, increment(vertex_index))
                 ELSE NegativeEdge(face, decrement(vertex_index))

(* search_edge that reports a crossed edge as the edge it came through *)
search_edge_same_edge(v0, v1, start_face, start_edge) ==
    LET face == neighbor(faces, start_face, start_edge)
        vertex_index == get_neighbor_index(faces, face, start_face)
        far == vertex(faces, face, vertex_index)
    IN  IF vertex_index = NoRot THEN Panic("PanicUnwrap")
        ELSE IF far = v1 THEN End(face, vertex_index)
        ELSE IF far \notin DOMAIN pos THEN Panic("PanicIndex")
        ELSE LET orientation == orientation_triangle(pos[v0], pos[v1], pos[far])
             IN  IF orientation = "Collinear" THEN End(face, vertex_index)
                 ELSE IF orientation = "CCW"
                 THEN NegativeEdge(start_face, start_edge)
                 ELSE PositiveEdge(start_face, start_edge)

search_edge(v0, v1, start_face, start_edge) ==
    LET face == neighbor(faces, start_face, start_edge)
        vertex_index == get_neighbor_index(faces, face, start_face)
        far == vertex(faces, face, vertex_index)
    IN  IF vertex_index = NoRot THEN Panic("PanicUnwrap")
        ELSE IF far = v1 THEN End(face, vertex_index)
        ELSE IF far \notin DOMAIN pos THEN Panic("PanicIndex")
        ELSE LET p0 == p(ClueVertexIndex(v0))
                 p1 == p(ClueVertexIndex(v1))
                 pn == p(ClueVertexIndex(far))
                 orientation == orientation_triangle(p0, p1, pn)
             IN  IF orientation = "Collinear" THEN End(face, vertex_index)
                 ELSE IF orientation = "CCW"
                 THEN NegativeEdge(face, increment(vertex_index))
                 ELSE PositiveEdge(face, decrement(vertex_index))

(* advance that searches around the corner of a Start again *)
advance_start_vertex_search(v0, v1, current) ==
    CASE current.kind = "None" -> None
      [] current.kind \in {"Start", "End"} ->
            search_vertex(v0, v1, vi(ClueFaceVertex(current.face, current.rot)), v0)
      [] current.kind = "CoincidentEdge" ->
            search_vertex(v0, v1, vi(ClueEdgeEnd(current.face, current.rot)),
                                  vi(ClueEdgeStart(current.face, current.rot)))
      [] OTHER -> search_edge(v0, v1, current.face, current.rot)

(* advance that avoids v0, not the start of the edge, after a             *)
(* CoincidentEdge                                                          *)
advance_avoid_v0(v0, v1, current) ==
    CASE current.kind = "None" -> None
      [] current.kind = "End" ->
            search_vertex(v0, v1, vi(ClueFaceVertex(current.face, current.rot)), v0)
      [] current.kind = "CoincidentEdge" ->
            search_vertex(v0, v1, vi(ClueEdgeEnd(current.face, current.rot)), v0)
      [] OTHER -> search_edge(v0, v1, current.face, current.rot)

(* advance that searches on from the start of a CoincidentEdge *)
advance_coincident_from_start(v0, v1, current) ==
    CASE current.kind = "None" -> None
      [] current.kind = "End" ->
            search_vertex(v0, v1, vi(ClueFaceVertex(current.face, current.rot)), v0)
      [] current.kind = "CoincidentEdge" ->
            search_vertex(v0, v1, vi(ClueEdgeStart(current.face, current.rot)),
                                  vi(ClueEdgeEnd(current.face, current.rot)))
      [] OTHER -> search_edge(v0, v1, current.face, current.rot)

(* advance that crosses a CoincidentEdge like the other edge events *)
advance_all_edges(v0, v1, current) ==
    CASE current.kind = "None" -> None
      [] current.kind = "End" ->
            search_vertex(v0, v1, vi(ClueFaceVertex(current.face, current.rot)), v0)
      [] OTHER -> search_edge(v0, v1, current.face, current.rot)

(* advance that restarts from v0 after an End instead of going on from *)
(* the vertex the End was observed at                                   *)
advance_end_from_v0(v0, v1, current) ==
    CASE current.kind = "None" -> None
      [] current.kind = "End" ->
            IF vi(ClueFaceVertex(current.face, current.rot)) = v1 THEN None
            ELSE search_vertex(v0, v1, v0, v0)
      [] current.kind = "CoincidentEdge" ->
            search_vertex(v0, v1, vi(ClueEdgeEnd(current.face, current.rot)),
                                  vi(ClueEdgeStart(current.face, current.rot)))
      [] OTHER -> search_edge(v0, v1, current.face, current.rot)

(* advance that treats every End as terminal *)
advance_end_terminal(v0, v1, current) ==
    CASE current.kind \in {"None", "End"} -> None
      [] current.kind = "CoincidentEdge" ->
            search_vertex(v0, v1, vi(ClueEdgeEnd(current.face, current.rot)),
                                  vi(ClueEdgeStart(current.face, current.rot)))
      [] OTHER -> search_edge(v0, v1, current.face, current.rot)

(* CrossingIterator::advance: the crossing that replaces current *)
advance(v0, v1, current) ==
    CASE current.kind = "None" -> None
      [] current.kind = "Start" -> search_edge(v0, v1, current.face, current.rot)
      [] current.kind = "End" ->
            search_vertex(v0, v1, vi(ClueFaceVertex(current.face, current.rot)), v0)
      [] current.kind = "CoincidentEdge" ->
            search_vertex(v0, v1, vi(ClueEdgeEnd(current.face, current.rot)),
                                  vi(ClueEdgeStart(current.face, current.rot)))
      [] current.kind = "PositiveEdge" -> search_edge(v0, v1, current.face, current.rot)
      [] current.kind = "NegativeEdge" -> search_edge(v0, v1, current.face, current.rot)

Failed(c) == c.kind \in PanicKinds \/ c.kind = "Diverge"

(* new without assert_ne!(v0, v1) *)
new_assert_no_ne(v0, v1) ==
    IF dim # 2 THEN "dimension"
    ELSE IF ~is_finite_vertex(v0) THEN "v0 infinite"
    ELSE IF ~is_finite_vertex(v1) THEN "v1 infinite"
    ELSE "ok"

(* CrossingIterator::new, lines 42-45: the assertion that fails, if any *)
new_assert(v0, v1) ==
    IF dim # 2 THEN "dimension"
    ELSE IF v0 = v1 THEN "v0 == v1"
    ELSE IF ~is_finite_vertex(v0) THEN "v0 infinite"
    ELSE IF ~is_finite_vertex(v1) THEN "v1 infinite"
    ELSE "ok"

NoIter == [st |-> "none", v0 |-> 0, v1 |-> 0, current |-> None]

(* CrossingIterator::new(tri, v0, v1) *)
New ==
    /\ iter.st = "none"
    /\ \/ ret.op = "none"
       \/ ret.op = "p_mut" /\ ret.arg[1].clue = "VertexIndex"
    /\ \E v0, v1 \in 0..Len(pos) :
         LET a == new_assert(v0, v1)
             c == search_vertex(v0, v1, v0, v0)
         IN  IF a # "ok"
             THEN iter' = [st |-> a, v0 |-> v0, v1 |-> v1, current |-> None]
             ELSE IF Failed(c)
             THEN iter' = [st |-> c.kind, v0 |-> v0, v1 |-> v1, current |-> None]
             ELSE iter' = [st |-> "live", v0 |-> v0, v1 |-> v1, current |-> c]
    /\ UNCHANGED <<dim, pos, vface, faces, edits, out, nones, ret>>
    /\ UNCHANGED <<smat_vars, store_vars>>

(* next that returns the crossing it has just computed *)
Pull_no_lookahead ==
    /\ iter.st = "live"
    /\ nones < MaxNones
    /\ Len(out) < MaxOut
    /\ LET next == advance(iter.v0, iter.v1, iter.current)
       IN  IF Failed(next)
           THEN /\ iter' = [iter EXCEPT !.st = next.kind]
                /\ UNCHANGED <<out, nones>>
           ELSE /\ iter' = [iter EXCEPT !.current = next]
                /\ IF next = None
                   THEN nones' = nones + 1 /\ out' = out
                   ELSE out' = Append(out, next) /\ nones' = nones
    /\ UNCHANGED <<dim, pos, vface, faces, edits, ret>>
    /\ UNCHANGED <<smat_vars, store_vars>>

(* Iterator::next: returns current and stores the next crossing *)
Pull ==
    /\ iter.st = "live"
    /\ nones < MaxNones
    /\ Len(out) < MaxOut
    /\ LET next == advance(iter.v0, iter.v1, iter.current)
       IN  IF Failed(next)
           THEN /\ iter' = [iter EXCEPT !.st = next.kind]
                /\ UNCHANGED <<out, nones>>
           ELSE /\ iter' = [iter EXCEPT !.current = next]
                /\ IF iter.current = None
                   THEN nones' = nones + 1 /\ out' = out
                   ELSE out' = Append(out, iter.current) /\ nones' = nones
    /\ UNCHANGED <<dim, pos, vface, faces, edits, ret>>
    /\ UNCHANGED <<smat_vars, store_vars>>

----------------------------------------------------------------------------
(* Calls of the queries on the triangulation as the builder left it *)

Call(op, arg, val) == [op |-> op, arg |-> arg, val |-> val]

(* The edges of the faces around base that start at base *)
IncidentEdges(base) ==
    { e \in [face : DOMAIN faces, edge : Rot3] :
        vertex(faces, e.face, increment(e.edge)) = base }

Circulate ==
    /\ iter.st = "none"
    /\ ret.op = "none"
    /\ dim = 2
    /\ \E base \in 0..Len(pos) : \E start \in IncidentEdges(base) : \E ccw \in BOOLEAN :
         ret' = Call(IF ccw THEN "advance_ccw" ELSE "advance_cw", <<base, start>>,
                     revolve(base, start, start, ccw, <<>>, 2 * Len(faces)))
    /\ UNCHANGED <<dim, pos, vface, faces, edits, iter, out, nones>>
    /\ UNCHANGED <<smat_vars, store_vars>>

(* The clues a caller can name a vertex by *)
Clues ==
    {ClueVertexIndex(x) : x \in 0..Len(pos)}
        \cup {ClueFaceVertex(f, r) : f \in DOMAIN faces, r \in Rot3}
        \cup {ClueEdgeStart(f, r) : f \in DOMAIN faces, r \in Rot3}
        \cup {ClueEdgeEnd(f, r) : f \in DOMAIN faces, r \in Rot3}

CallVi ==
    /\ iter.st = "none"
    /\ ret.op = "none"
    /\ \E clue \in Clues : ret' = Call("vi", <<clue>>, vi(clue))
    /\ UNCHANGED <<dim, pos, vface, faces, edits, iter, out, nones>>
    /\ UNCHANGED <<smat_vars, store_vars>>

(* the clues that name a vertex of the vertex arena *)
FiniteClues == {clue \in Clues : vi(clue) \in DOMAIN pos}

CallP ==
    /\ iter.st = "none"
    /\ ret.op = "none"
    /\ \E clue \in FiniteClues : ret' = Call("p", <<clue>>, p(clue))
    /\ UNCHANGED <<dim, pos, vface, faces, edits, iter, out, nones>>
    /\ UNCHANGED <<smat_vars, store_vars>>

CallV ==
    /\ iter.st = "none"
    /\ ret.op = "none"
    /\ \E clue \in FiniteClues : ret' = Call("v", <<clue>>, v_ref(clue))
    /\ UNCHANGED <<dim, pos, vface, faces, edits, iter, out, nones>>
    /\ UNCHANGED <<smat_vars, store_vars>>

CallC ==
    /\ iter.st = "none"
    /\ ret.op = "none"
    /\ \E f \in DOMAIN faces : \E r \in Rot3 :
         ret' = Call("c", <<f, r>>, constraint_of(FaceEdge(f, r)))
    /\ UNCHANGED <<dim, pos, vface, faces, edits, iter, out, nones>>
    /\ UNCHANGED <<smat_vars, store_vars>>

(* A position written through p_mut, after which the triangulation is     *)
(* only traversed.  It counts as an edit.                                  *)
PMut ==
    /\ iter.st = "none"
    /\ ret.op = "none"
    /\ dim = 2
    /\ edits < MaxEdits
    /\ \E clue \in FiniteClues : \E q \in MovedTo :
         /\ pos' = p_mut(clue, q)
         /\ ret' = Call("p_mut", <<clue, q>>, <<>>)
    /\ edits' = edits + 1
    /\ UNCHANGED <<dim, vface, faces, iter, out, nones>>
    /\ UNCHANGED <<smat_vars, store_vars>>

OppositeEdge ==
    /\ iter.st = "none"
    /\ ret.op \in {"none", "set_neighbor"}
    /\ dim = 2
    /\ \E f \in DOMAIN faces : \E r \in Rot3 :
         ret' = Call("opposite_edge", <<f, r>>, opposite_edge(FaceEdge(f, r)))
    /\ UNCHANGED <<dim, pos, vface, faces, edits, iter, out, nones>>
    /\ UNCHANGED <<smat_vars, store_vars>>

(* Face::set_neighbor called from outside the builder's own operations:   *)
(* one neighbour link is overwritten and its twin is not.                 *)
SetNeighbor ==
    /\ iter.st = "none"
    /\ ret.op = "none"
    /\ dim = 2
    /\ Len(faces) <= MaxBrokenFaces
    /\ \E f \in DOMAIN faces : \E r \in Rot3 : \E g \in DOMAIN faces :
         /\ g # neighbor(faces, f, r)
         /\ faces' = [faces EXCEPT ![f].n = Put(@, r, g)]
         /\ ret' = Call("set_neighbor", <<f, r, g>>, <<>>)
    /\ UNCHANGED <<dim, pos, vface, edits, iter, out, nones>>
    /\ UNCHANGED <<smat_vars, store_vars>>

FindEdgeByVertex ==
    /\ iter.st = "none"
    /\ ret.op = "none"
    /\ dim = 2
    /\ \E a \in DOMAIN pos : \E b \in 0..Len(pos) :
         ret' = Call("find_edge_by_vertex", <<a, b>>, find_edge_by_vertex(a, b))
    /\ UNCHANGED <<dim, pos, vface, faces, edits, iter, out, nones>>
    /\ UNCHANGED <<smat_vars, store_vars>>

----------------------------------------------------------------------------
(* smat/sparsematrix.rs: SparseMatrix<M: IndexMask, S: Store>              *)

(* Option<T>: Absent is None, Some(x) holds x *)
Absent == <<>>
Some(x) == <<x>>

(* The slots and the items the client uses: the slots of the test          *)
(* csr_simple_, and two items, so that a replaced item differs             *)
Slots == { <<0, 0>>, <<3, 4>>, <<4, 3>>, <<4, 2>>, <<4, 4>> }
Items == { 1, 2 }

InsertAt(s, k, x) == SubSeq(s, 1, k) \o <<x>> \o SubSeq(s, k + 1, Len(s))
RemoveAt(s, k) == SubSeq(s, 1, k) \o SubSeq(s, k + 2, Len(s))

(* IndexMask, a compressed row mask: the (major, minor) pairs it holds in  *)
(* row-major order; the position of a pair is the number of pairs before   *)
(* it, and it is the position of its item in the store                     *)
mask_before(m, major, minor) ==
    Cardinality({ i \in DOMAIN m :
        \/ m[i][1] < major
        \/ m[i][1] = major /\ m[i][2] < minor })

mask_has(m, major, minor) == \E i \in DOMAIN m : m[i] = <<major, minor>>

(* IndexMask::get(major, minor) -> Option<usize> *)
mask_get(m, major, minor) ==
    IF mask_has(m, major, minor) THEN Some(mask_before(m, major, minor))
    ELSE Absent

(* IndexMask::add(major, minor) -> (usize, bool): the position of the pair *)
(* and whether the mask held it already                                    *)
mask_add(m, major, minor) ==
    LET k == mask_before(m, major, minor) IN
    IF mask_has(m, major, minor)
    THEN [mask |-> m, pos |-> k, b |-> TRUE]
    ELSE [mask |-> InsertAt(m, k, <<major, minor>>), pos |-> k, b |-> FALSE]

(* IndexMask::remove(major, minor) -> Option<(usize, usize)>: the position *)
(* the pair had and the number of pairs left in its major                  *)
mask_remove(m, major, minor) ==
    LET k == mask_before(m, major, minor)
        left == RemoveAt(m, k)
    IN  IF mask_has(m, major, minor)
        THEN [mask |-> left,
              res |-> Some(<<k, Cardinality({ i \in DOMAIN left :
                                              left[i][1] = major })>>)]
        ELSE [mask |-> m, res |-> Absent]

(* Store::insert, replace, remove, get at a position counted from 0 *)
store_insert(s, k, value) == InsertAt(s, k, value)
store_replace(s, k, value) == [s EXCEPT ![k + 1] = value]
store_remove(s, k) == RemoveAt(s, k)
store_get(s, k) == s[k + 1]

(* The matrix as a value: the four fields of SparseMatrix *)
SMat == [nnz |-> nnz, outer_mask |-> outer_mask, mask |-> mask, store |-> store]

(* SparseMatrix::new *)
smat_new == [nnz |-> 0, outer_mask |-> {}, mask |-> <<>>, store |-> <<>>]

(* SparseMatrix::clear *)
smat_clear(m) == [nnz |-> 0, outer_mask |-> {}, mask |-> <<>>, store |-> <<>>]

(* SparseMatrix::add(r, c, value) -> Option<Item>: the matrix after the    *)
(* call and the value returned                                             *)
smat_add(m, r, c, value) ==
    LET a == mask_add(m.mask, r, c) IN
    IF a.b
    THEN [m |-> [m EXCEPT !.store = store_replace(m.store, a.pos, value)],
          val |-> Some(store_get(m.store, a.pos))]
    ELSE [m |-> [nnz |-> m.nnz + 1,
                 outer_mask |-> m.outer_mask \cup {r},
                 mask |-> a.mask,
                 store |-> store_insert(m.store, a.pos, value)],
          val |-> Absent]

(* remove that drops the row from outer_mask whatever is left in the row *)
smat_remove_drops_row(m, r, c) ==
    LET d == mask_remove(m.mask, r, c) IN
    IF d.res # Absent
    THEN [m |-> [nnz |-> m.nnz - 1,
                 outer_mask |-> m.outer_mask \ {r},
                 mask |-> d.mask,
                 store |-> store_remove(m.store, d.res[1][1])],
          val |-> Some(store_get(m.store, d.res[1][1]))]
    ELSE [m |-> m, val |-> Absent]

(* SparseMatrix::remove(r, c) -> Option<Item> *)
smat_remove(m, r, c) ==
    LET d == mask_remove(m.mask, r, c) IN
    IF d.res # Absent
    THEN LET data_index == d.res[1][1]
             minor_count == d.res[1][2]
         IN  [m |-> [nnz |-> m.nnz - 1,
                     outer_mask |-> IF minor_count = 0
                                    THEN m.outer_mask \ {r}
                                    ELSE m.outer_mask,
                     mask |-> d.mask,
                     store |-> store_remove(m.store, data_index)],
              val |-> Some(store_get(m.store, data_index))]
    ELSE [m |-> m, val |-> Absent]

(* SparseMatrix::contains(r, c) *)
smat_contains(m, r, c) == r \in m.outer_mask /\ mask_get(m.mask, r, c) # Absent

(* SparseMatrix::get(r, c) -> Option<&Item> *)
smat_get(m, r, c) ==
    IF r \notin m.outer_mask THEN Absent
    ELSE LET g == mask_get(m.mask, r, c) IN
         IF g # Absent THEN Some(store_get(m.store, g[1])) ELSE Absent

(* The finite map the client has built: nothing added yet *)
NoneAdded == [rc \in Slots |-> Absent]

SMatInit ==
    /\ nnz = smat_new.nnz
    /\ outer_mask = smat_new.outer_mask
    /\ mask = smat_new.mask
    /\ store = smat_new.store
    /\ added = NoneAdded

SMatSet(m) ==
    /\ nnz' = m.nnz
    /\ outer_mask' = m.outer_mask
    /\ mask' = m.mask
    /\ store' = m.store

(* matrix.add(r, c, value) *)
SMatAdd ==
    /\ \E rc \in Slots : \E value \in Items :
         LET a == smat_add(SMat, rc[1], rc[2], value) IN
         /\ SMatSet(a.m)
         /\ ret' = Call("add", <<rc[1], rc[2], value>>, a.val)
         /\ added' = [added EXCEPT ![rc] = Some(value)]
    /\ UNCHANGED <<tri_vars, store_vars>>

(* matrix.remove(r, c) *)
SMatRemove ==
    /\ \E rc \in Slots :
         LET d == smat_remove(SMat, rc[1], rc[2]) IN
         /\ SMatSet(d.m)
         /\ ret' = Call("remove", rc, d.val)
         /\ added' = [added EXCEPT ![rc] = Absent]
    /\ UNCHANGED <<tri_vars, store_vars>>

(* matrix.clear() *)
SMatClear ==
    /\ SMatSet(smat_clear(SMat))
    /\ ret' = Call("clear", <<>>, <<>>)
    /\ added' = NoneAdded
    /\ UNCHANGED <<tri_vars, store_vars>>

(* matrix.get(r, c) *)
SMatGet ==
    /\ \E rc \in Slots : ret' = Call("get", rc, smat_get(SMat, rc[1], rc[2]))
    /\ UNCHANGED <<tri_vars, smat_vars, store_vars>>

(* matrix.contains(r, c) *)
SMatContains ==
    /\ \E rc \in Slots :
         ret' = Call("contains", rc, smat_contains(SMat, rc[1], rc[2]))
    /\ UNCHANGED <<tri_vars, smat_vars, store_vars>>

(* matrix.nnz() *)
SMatNnz ==
    /\ ret' = Call("nnz", <<>>, nnz)
    /\ UNCHANGED <<tri_vars, smat_vars, store_vars>>

----------------------------------------------------------------------------
(* shine-stdext/src/unnamedstore.rs: Store<D> and Index<D>                 *)
(*                                                                         *)
(* An entry is a slot of the arena; an Index is a pointer to an entry.     *)
(* Index handles live in any thread and are cloned and dropped without a   *)
(* guard, so IndexClone and IndexDrop interleave with every step of the    *)
(* thread that holds a guard.  The counter is only ever compared with 0,   *)
(* and an entry that reached 0 has no handle left to change it, so a       *)
(* Relaxed load is an atomic read at some earlier point of the run.        *)

EntryIds == 1..MaxEntries

(* AtomicUsize: fetch_add and fetch_sub wrap *)
UsizeModulus == 2^30
(* an increment that is lost *)
fetch_add_lost(n) == n
fetch_add(n) == (n + 1) % UsizeModulus
fetch_sub(n) == (n + UsizeModulus - 1) % UsizeModulus

(* No counter loaded *)
NotLoaded == 0 - 1

(* No drain_unused is running or has run since the store was last changed *)
NoDrain == [pc |-> "idle", i |-> 0, rc |-> NotLoaded,
            seen |-> [e \in EntryIds |-> NotLoaded], gone |-> {}]

Range(s) == { s[i] : i \in DOMAIN s }

(* PinnedArena::allocate picks a slot that is not in use;                  *)
(* PinnedArena::deallocate gives the slot back                             *)
arena_free(a) == { e \in EntryIds : ~a[e].used }
arena_allocate(a, e, count) == [a EXCEPT ![e] = [used |-> TRUE, ref_count |-> count]]
arena_deallocate(a, e) == [a EXCEPT ![e].used = FALSE]

(* Store::new *)
StoreInit ==
    /\ arena = [e \in EntryIds |-> [used |-> FALSE, ref_count |-> 0]]
    /\ resources = <<>>
    /\ requests = <<>>
    /\ indices = [e \in EntryIds |-> 0]
    /\ guard = "none"
    /\ drain = NoDrain

(* The counter of an entry after an Index has written it.  A write through *)
(* an Index of a deallocated entry is a write to freed memory: it may or   *)
(* may not land in the slot.                                               *)
Written(e, n) == IF arena[e].used THEN {n} ELSE {n, arena[e].ref_count}

(* Store::try_read *)
TryRead ==
    /\ guard = "none"
    /\ guard' = "read"
    /\ UNCHANGED <<arena, resources, requests, indices, drain>>
    /\ UNCHANGED <<tri_vars, ret, smat_vars>>

(* Store::try_write *)
TryWrite ==
    /\ guard = "none"
    /\ guard' = "write"
    /\ UNCHANGED <<arena, resources, requests, indices, drain>>
    /\ UNCHANGED <<tri_vars, ret, smat_vars>>

(* The guard is dropped *)
DropGuard ==
    /\ guard # "none"
    /\ drain.pc \in {"idle", "done"}
    /\ guard' = "none"
    /\ drain' = NoDrain
    /\ UNCHANGED <<arena, resources, requests, indices>>
    /\ UNCHANGED <<tri_vars, ret, smat_vars>>

(* ExclusiveData::add: allocate with ref_count 0, Index::new, push *)
exclusive_add ==
    \E e \in arena_free(arena) :
        /\ arena' = arena_allocate(arena, e, fetch_add(0))
        /\ requests' = Append(requests, e)
        /\ indices' = [indices EXCEPT ![e] = @ + 1]

(* ReadGuard::add, under the mutex of the exclusive data *)
ReadAdd ==
    /\ guard = "read"
    /\ exclusive_add
    /\ UNCHANGED <<resources, guard, drain>>
    /\ UNCHANGED <<tri_vars, ret, smat_vars>>

(* WriteGuard::add *)
WriteAdd ==
    /\ guard = "write"
    /\ drain.pc \in {"idle", "done"}
    /\ exclusive_add
    /\ drain' = NoDrain
    /\ UNCHANGED <<resources, guard>>
    /\ UNCHANGED <<tri_vars, ret, smat_vars>>

(* WriteGuard::finalize_requests *)
FinalizeRequests ==
    /\ guard = "write"
    /\ drain.pc \in {"idle", "done"}
    /\ resources' = resources \o requests
    /\ requests' = <<>>
    /\ drain' = NoDrain
    /\ UNCHANGED <<arena, indices, guard>>
    /\ UNCHANGED <<tri_vars, ret, smat_vars>>

(* Index::clone, in any thread that holds an Index *)
IndexClone ==
    /\ \E e \in EntryIds :
         /\ indices[e] > 0
         /\ indices[e] < MaxIndices
         /\ \E n \in Written(e, fetch_add(arena[e].ref_count)) :
              arena' = [arena EXCEPT ![e].ref_count = n]
         /\ indices' = [indices EXCEPT ![e] = @ + 1]
    /\ UNCHANGED <<resources, requests, guard, drain>>
    /\ UNCHANGED <<tri_vars, ret, smat_vars>>

(* Index::drop, in any thread that holds an Index *)
IndexDrop ==
    /\ \E e \in EntryIds :
         /\ indices[e] > 0
         /\ \E n \in Written(e, fetch_sub(arena[e].ref_count)) :
              arena' = [arena EXCEPT ![e].ref_count = n]
         /\ indices' = [indices EXCEPT ![e] = @ - 1]
    /\ UNCHANGED <<resources, requests, guard, drain>>
    /\ UNCHANGED <<tri_vars, ret, smat_vars>>

(* WriteGuard::drain_unused is called: drain_impl on resources first *)
DrainUnused ==
    /\ guard = "write"
    /\ drain.pc \in {"idle", "done"}
    /\ drain' = [NoDrain EXCEPT !.pc = "resources", !.i = 1]
    /\ UNCHANGED <<arena, resources, requests, indices, guard>>
    /\ UNCHANGED <<tri_vars, ret, smat_vars>>

(* The vector drain_impl runs over *)
Drained == IF drain.pc = "resources" THEN resources ELSE requests

(* drain_impl: e.ref_count.load(Relaxed) of the next entry *)
DrainLoad ==
    /\ drain.pc \in {"resources", "requests"}
    /\ drain.rc = NotLoaded
    /\ drain.i <= Len(Drained)
    /\ LET e == Drained[drain.i] IN
       drain' = [drain EXCEPT !.rc = arena[e].ref_count,
                              !.seen[e] = arena[e].ref_count]
    /\ UNCHANGED <<arena, resources, requests, indices, guard>>
    /\ UNCHANGED <<tri_vars, ret, smat_vars>>

(* an entry is drained whatever the counter read *)
drains_any(rc, filter) == filter

(* drain_impl: the closure given to drain_filter says whether the entry    *)
(* goes, from the counter read and the filter of the caller                *)
drains(rc, filter) == IF rc = 0 THEN filter ELSE FALSE

(* drain_impl: the entry is deallocated and taken out, or kept *)
DrainDecide ==
    /\ drain.pc \in {"resources", "requests"}
    /\ drain.rc # NotLoaded
    /\ LET e == Drained[drain.i] IN
       IF drains(drain.rc, TRUE)
       THEN /\ arena' = arena_deallocate(arena, e)
            /\ IF drain.pc = "resources"
               THEN resources' = RemoveAt(resources, drain.i - 1)
                    /\ UNCHANGED requests
               ELSE requests' = RemoveAt(requests, drain.i - 1)
                    /\ UNCHANGED resources
            /\ drain' = [drain EXCEPT !.rc = NotLoaded, !.gone = @ \cup {e}]
       ELSE /\ drain' = [drain EXCEPT !.rc = NotLoaded, !.i = @ + 1]
            /\ UNCHANGED <<arena, resources, requests>>
    /\ UNCHANGED <<indices, guard>>
    /\ UNCHANGED <<tri_vars, ret, smat_vars>>

(* drain_unused_filtered: resources are done, then requests, then return *)
DrainNext ==
    /\ drain.pc \in {"resources", "requests"}
    /\ drain.rc = NotLoaded
    /\ drain.i > Len(Drained)
    /\ drain' = IF drain.pc = "resources"
                THEN [drain EXCEPT !.pc = "requests", !.i = 1]
                ELSE [drain EXCEPT !.pc = "done"]
    /\ UNCHANGED <<arena, resources, requests, indices, guard>>
    /\ UNCHANGED <<tri_vars, ret, smat_vars>>

----------------------------------------------------------------------------

Init ==
    /\ dim = -1
    /\ pos = <<>>
    /\ vface = <<>>
    /\ faces = <<>>
    /\ edits = 0
    /\ iter = NoIter
    /\ out = <<>>
    /\ nones = 0
    /\ ret = NoRet
    /\ SMatInit
    /\ StoreInit

Next ==
    \/ AddFirstVertices
    \/ AddThirdVertex
    \/ AddVertex
    \/ Flip
    \/ SetFace
    \/ New
    \/ Pull
    \/ FindEdgeByVertex
    \/ Circulate
    \/ OppositeEdge
    \/ CallVi
    \/ CallP
    \/ CallV
    \/ CallC

Spec == Init /\ [][Next]_vars

(* The same client, which may also write a position through p_mut *)
NextMoved ==
    \/ Next
    \/ PMut

SpecMoved == Init /\ [][NextMoved]_vars

(* The builder, a neighbour link overwritten behind its back, and          *)
(* opposite_edge called on the result                                      *)
NextBroken ==
    \/ AddFirstVertices
    \/ AddThirdVertex
    \/ AddVertex
    \/ Flip
    \/ SetFace
    \/ SetNeighbor
    \/ OppositeEdge

SpecBroken == Init /\ [][NextBroken]_vars

(* A client of one SparseMatrix *)
NextSMat ==
    \/ SMatAdd
    \/ SMatRemove
    \/ SMatClear
    \/ SMatGet
    \/ SMatContains
    \/ SMatNnz

SpecSMat == Init /\ [][NextSMat]_vars

(* The threads that share one Store and its Index handles *)
NextStore ==
    \/ TryRead
    \/ TryWrite
    \/ DropGuard
    \/ ReadAdd
    \/ WriteAdd
    \/ FinalizeRequests
    \/ IndexClone
    \/ IndexDrop
    \/ DrainUnused
    \/ DrainLoad
    \/ DrainDecide
    \/ DrainNext

SpecStore == Init /\ [][NextStore]_vars

----------------------------------------------------------------------------
(* Vocabulary of the properties *)

Live == iter.st = "live"
Complete == Live /\ iter.current = None
Exhausted == Live /\ nones > 0
ValidArgs == dim = 2 /\ iter.v0 # iter.v1
             /\ is_finite_vertex(iter.v0) /\ is_finite_vertex(iter.v1)
Last(q) == q[Len(q)]

(* a and b are the start and the end of an edge of some face *)
Adjacent(a, b) ==
    \E f \in DOMAIN faces : \E r \in Rot3 :
        vertex(faces, f, increment(r)) = a /\ vertex(faces, f, decrement(r)) = b

CornerOf(c) == vertex(faces, c.face, c.rot)
StartOf(c) == vertex(faces, c.face, increment(c.rot))
EndOf(c) == vertex(faces, c.face, decrement(c.rot))

(* finite vertex w lies on the open segment (v0, v1) *)
OnSegment(w) ==
    /\ w \in DOMAIN pos /\ w # iter.v0 /\ w # iter.v1
    /\ Cross(pos[iter.v0], pos[iter.v1], pos[w]) = 0
    /\ Dot(pos[iter.v0], pos[iter.v1], pos[w]) > 0
    /\ Dot(pos[iter.v0], pos[iter.v1], pos[w])
         < Dot(pos[iter.v0], pos[iter.v1], pos[iter.v1])

----------------------------------------------------------------------------
(* C1. Twin symmetry: in every triangulation state, for every face F and   *)
(* rotation r, opposite_edge(opposite_edge((F, r))) is (F, r).             *)
C1_TwinSymmetry ==
    \A f \in DOMAIN faces : \A r \in Rot3 :
        opposite_edge(opposite_edge(FaceEdge(f, r))) = FaceEdge(f, r)

C1_Witness ==
    /\ edits > 0 /\ Len(pos) = Len(Points)
    /\ \E f \in DOMAIN faces : \E r \in Rot3 :
         /\ opposite_edge(FaceEdge(f, r)).edge # r
         /\ opposite_edge(opposite_edge(FaceEdge(f, r))) = FaceEdge(f, r)

(* C2. Crossing endpoints: when an edge joins v0 to v1 the iterator yields *)
(* exactly one event, a CoincidentEdge whose start is v0 and whose end is  *)
(* v1, and the next pull returns none.                                     *)
C2_DirectEdge ==
    (iter.st # "none" /\ ValidArgs /\ Adjacent(iter.v0, iter.v1)) =>
        /\ Live
        /\ LET first == IF out = <<>> THEN iter.current ELSE out[1]
           IN  /\ first.kind = "CoincidentEdge"
               /\ StartOf(first) = iter.v0
               /\ EndOf(first) = iter.v1
        /\ Len(out) <= 1
        /\ out # <<>> => iter.current = None
        /\ nones > 0 => Len(out) = 1

C2_Witness ==
    /\ Exhausted /\ Adjacent(iter.v0, iter.v1) /\ nones = MaxNones
    /\ Len(out) = 1 /\ out[1].kind = "CoincidentEdge"

(* the edge (w, v1) lies on the segment: v1 is reached along an edge *)
ArrivesAlongEdge ==
    \E w \in DOMAIN pos : OnSegment(w) /\ Adjacent(w, iter.v1)

(* C3, as stated. Crossing completeness (final event): when v0 and v1 are  *)
(* not joined by an edge, the last event before exhaustion is an End whose *)
(* corner resolves to v1.                                                  *)
C3_Original ==
    (Exhausted /\ ~Adjacent(iter.v0, iter.v1)) =>
        /\ out # <<>>
        /\ Last(out).kind = "End"
        /\ CornerOf(Last(out)) = iter.v1

(* C3, amended. When v0 and v1 are not joined by an edge, the last event   *)
(* before exhaustion is an End whose corner resolves to v1, unless v1 is   *)
(* reached along an existing edge lying on the segment: then it is a       *)
(* CoincidentEdge whose end resolves to v1.                                *)
C3_FinalEvent ==
    (Exhausted /\ ~Adjacent(iter.v0, iter.v1)) =>
        /\ out # <<>>
        /\ IF ArrivesAlongEdge
           THEN Last(out).kind = "CoincidentEdge" /\ EndOf(Last(out)) = iter.v1
           ELSE Last(out).kind = "End" /\ CornerOf(Last(out)) = iter.v1

C3_Witness ==
    /\ Exhausted /\ ~Adjacent(iter.v0, iter.v1)
    /\ Last(out).kind = "End" /\ CornerOf(Last(out)) = iter.v1
    /\ Len(out) >= 3

(* The events follow the run grammar: a run is one CoincidentEdge, or a   *)
(* Start, any number of PositiveEdge/NegativeEdge, and an End.             *)
SignedKinds == {"PositiveEdge", "NegativeEdge"}
Follows(prev, c) ==
    IF c.kind \in {"Start", "CoincidentEdge"}
    THEN prev.kind \in {"End", "CoincidentEdge"}
    ELSE prev.kind \in {"Start"} \cup SignedKinds
Count(q, k) == Cardinality({i \in DOMAIN q : q[i].kind = k})

(* C4, as stated. Crossing completeness (counts): when v0 and v1 are not   *)
(* joined by an edge the sequence has exactly one Start and exactly one    *)
(* End, and every event between them is a PositiveEdge, a NegativeEdge or  *)
(* a CoincidentEdge.                                                       *)
C4_Original ==
    (Exhausted /\ ~Adjacent(iter.v0, iter.v1)) =>
        /\ Count(out, "Start") = 1
        /\ Count(out, "End") = 1
        /\ \A i, j \in DOMAIN out :
             (out[i].kind = "Start" /\ out[j].kind = "End") =>
                 /\ i < j
                 /\ \A k \in (i + 1)..(j - 1) :
                      out[k].kind \in SignedKinds \cup {"CoincidentEdge"}

(* C4, amended. The sequence is a chain of runs, each either a single      *)
(* CoincidentEdge or a Start, zero or more PositiveEdge/NegativeEdge and   *)
(* an End, so Start and End events pair up; when v0 and v1 are not joined  *)
(* by an edge and no vertex lies on the open segment (v0, v1) there is one *)
(* run: exactly one Start, first, exactly one End, last, and only          *)
(* PositiveEdge/NegativeEdge between them.                                 *)
C4_Runs ==
    Live =>
        /\ \A i \in DOMAIN out :
             IF i = 1 THEN out[i].kind \in {"Start", "CoincidentEdge"}
                      ELSE Follows(out[i - 1], out[i])
        /\ (out # <<>> /\ iter.current # None) => Follows(Last(out), iter.current)
        /\ Complete =>
             /\ out # <<>> /\ Last(out).kind \in {"End", "CoincidentEdge"}
             /\ Count(out, "Start") = Count(out, "End")
             /\ (~Adjacent(iter.v0, iter.v1) /\ ~\E w \in DOMAIN pos : OnSegment(w)) =>
                  /\ Count(out, "Start") = 1 /\ out[1].kind = "Start"
                  /\ Count(out, "End") = 1 /\ Last(out).kind = "End"
                  /\ \A k \in 2..(Len(out) - 1) : out[k].kind \in SignedKinds

C4_Witness ==
    /\ Exhausted /\ ~Adjacent(iter.v0, iter.v1)
    /\ Count(out, "Start") = 2 /\ Count(out, "End") = 2

C4_WitnessOneRun ==
    /\ Exhausted /\ ~Adjacent(iter.v0, iter.v1)
    /\ ~\E w \in DOMAIN pos : OnSegment(w)
    /\ Len(out) >= 4

(* C5, as stated. End is terminal: once an End has been returned no        *)
(* further search is started and every later pull returns none, whatever   *)
(* vertex the End was observed at.                                         *)
C5_Original ==
    \A i \in DOMAIN out :
        out[i].kind = "End" => (i = Len(out) /\ iter.current = None)

(* C5, amended. An End whose corner resolves to v1 is terminal: nothing is *)
(* computed after it and every later pull returns none.  An End observed   *)
(* at another vertex w is followed by a vertex search based at w, whose    *)
(* result, a Start or a CoincidentEdge leaving w, is the next event.       *)
C5_EndAtV1Terminal ==
    Live => \A i \in DOMAIN out :
        out[i].kind = "End" =>
            LET next == IF i = Len(out) THEN iter.current ELSE out[i + 1]
            IN  IF CornerOf(out[i]) = iter.v1
                THEN i = Len(out) /\ next = None
                ELSE \/ next.kind = "Start" /\ CornerOf(next) = CornerOf(out[i])
                     \/ next.kind = "CoincidentEdge" /\ StartOf(next) = CornerOf(out[i])

C5_Witness ==
    /\ Exhausted /\ nones = MaxNones
    /\ Last(out).kind = "End" /\ CornerOf(Last(out)) = iter.v1
    /\ \E i \in 1..(Len(out) - 1) : out[i].kind = "End"

EdgeKinds == {"Start"} \cup SignedKinds
NamedEdge(c) == {StartOf(c), EndOf(c)}

(* Geometry of the segment (v0, v1), stated apart from the traversal *)
Abs(x) == IF x < 0 THEN -x ELSE x
Side(x) == Cross(pos[iter.v0], pos[iter.v1], pos[x])

(* the open segment (v0, v1) crosses the interior of the edge {a, b} *)
Crosses(a, b) ==
    /\ Side(a) * Side(b) < 0
    /\ Cross(pos[a], pos[b], pos[iter.v0]) * Cross(pos[a], pos[b], pos[iter.v1]) < 0

CrossedEdges ==
    { NamedEdge(x) : x \in { y \in [face : DOMAIN faces, rot : Rot3] :
                               /\ is_finite_vertex(StartOf(y))
                               /\ is_finite_vertex(EndOf(y))
                               /\ Crosses(StartOf(y), EndOf(y)) } }

(* Where an event is observed along the segment, as a fraction <<n, d>> of *)
(* the way from v0 to v1: the crossing point of the named edge, the corner *)
(* of an End, the end vertex of a CoincidentEdge.                          *)
Where(c) ==
    IF c.kind \in EdgeKinds
    THEN LET s0 == Abs(Cross(pos[StartOf(c)], pos[EndOf(c)], pos[iter.v0]))
             s1 == Abs(Cross(pos[StartOf(c)], pos[EndOf(c)], pos[iter.v1]))
         IN  <<s0, s0 + s1>>
    ELSE LET x == IF c.kind = "End" THEN CornerOf(c) ELSE EndOf(c)
         IN  <<Dot(pos[iter.v0], pos[iter.v1], pos[x]),
               Dot(pos[iter.v0], pos[iter.v1], pos[iter.v1])>>
Nearer(x, y) == x[2] > 0 /\ y[2] > 0 /\ x[1] * y[2] < y[1] * x[2]

(* C6. Crossed features, complete and in order: the edges named by the     *)
(* Start and PositiveEdge/NegativeEdge events are exactly the edges whose  *)
(* interior the open segment (v0, v1) crosses, each named once, each with  *)
(* its endpoints strictly on opposite sides of line(v0, v1), and the       *)
(* events appear in order of increasing distance from v0.                  *)
C6_CrossedFeatures ==
    Live =>
        LET named == {i \in DOMAIN out : out[i].kind \in EdgeKinds}
        IN  /\ \A i \in named :
                 /\ is_finite_vertex(StartOf(out[i])) /\ is_finite_vertex(EndOf(out[i]))
                 /\ Side(StartOf(out[i])) * Side(EndOf(out[i])) < 0
                 /\ NamedEdge(out[i]) \in CrossedEdges
            /\ \A i, j \in named : i # j => NamedEdge(out[i]) # NamedEdge(out[j])
            /\ \A i, j \in DOMAIN out : i < j => Nearer(Where(out[i]), Where(out[j]))
            /\ Complete => {NamedEdge(out[i]) : i \in named} = CrossedEdges

C6_Witness ==
    /\ Exhausted /\ Cardinality(CrossedEdges) >= 3
    /\ Count(out, "Start") = 1 /\ Count(out, "PositiveEdge") >= 1
    /\ Count(out, "NegativeEdge") >= 1

(* The faces the segment passes through or along: a face with an edge the  *)
(* segment crosses, or with an edge lying on the segment.                  *)
Along(a, b) ==
    /\ is_finite_vertex(a) /\ is_finite_vertex(b)
    /\ Side(a) = 0 /\ Side(b) = 0
    /\ \A x \in {a, b} :
         /\ Dot(pos[iter.v0], pos[iter.v1], pos[x]) >= 0
         /\ Dot(pos[iter.v0], pos[iter.v1], pos[x])
              <= Dot(pos[iter.v0], pos[iter.v1], pos[iter.v1])

SegmentFaces ==
    { f \in DOMAIN faces : \E r \in Rot3 :
        LET a == vertex(faces, f, increment(r))
            b == vertex(faces, f, decrement(r))
        IN  \/ Along(a, b)
            \/ is_finite_vertex(a) /\ is_finite_vertex(b) /\ Crosses(a, b) }

(* C7. Finite traversal: for distinct finite v0, v1 in a 2-dimensional     *)
(* triangulation every search returns, and the events returned so far      *)
(* plus the one held in current never outnumber the faces the segment      *)
(* crosses: within that many pulls the iterator returns none.              *)
C7_FiniteTraversal ==
    (iter.st # "none" /\ ValidArgs) =>
        /\ Live
        /\ Len(out) + (IF iter.current = None THEN 0 ELSE 1)
             <= Cardinality(SegmentFaces)
        /\ nones > 0 => iter.current = None

C7_Witness ==
    /\ Exhausted /\ Len(out) >= 5 /\ Len(out) = Cardinality(SegmentFaces)

(* Events that arrive at, and leave, the vertex w *)
Arrives(c, w) ==
    \/ c.kind = "CoincidentEdge" /\ EndOf(c) = w
    \/ c.kind = "End" /\ CornerOf(c) = w
Leaves(c, w) ==
    \/ c.kind = "CoincidentEdge" /\ StartOf(c) = w
    \/ c.kind = "Start" /\ CornerOf(c) = w
(* an edge lying on the segment joins w to a vertex nearer to v0 / to v1 *)
EdgeBehind(w) ==
    \E u \in DOMAIN pos : Adjacent(u, w) /\ Along(u, w)
        /\ Dot(pos[iter.v0], pos[iter.v1], pos[u]) < Dot(pos[iter.v0], pos[iter.v1], pos[w])
EdgeAhead(w) ==
    \E u \in DOMAIN pos : Adjacent(w, u) /\ Along(w, u)
        /\ Dot(pos[iter.v0], pos[iter.v1], pos[u]) > Dot(pos[iter.v0], pos[iter.v1], pos[w])

(* C8, as stated. Collinear passthrough: a vertex w other than v0 and v1   *)
(* lying on segment(v0, v1) is reported by a CoincidentEdge event at w,    *)
(* and the sequence never holds an End at w followed by a Start from w.    *)
C8_Original ==
    Complete => \A w \in DOMAIN pos : OnSegment(w) =>
        /\ \E i \in DOMAIN out :
             out[i].kind = "CoincidentEdge" /\ w \in {StartOf(out[i]), EndOf(out[i])}
        /\ ~\E i \in 1..(Len(out) - 1) :
             /\ out[i].kind = "End" /\ CornerOf(out[i]) = w
             /\ out[i + 1].kind = "Start" /\ CornerOf(out[i + 1]) = w

(* C8, amended. A vertex w other than v0 and v1 lying on segment(v0, v1)   *)
(* is reported by an event arriving at w immediately followed by an event  *)
(* leaving w.  The arrival is a CoincidentEdge ending at w when an edge on *)
(* the segment leads to w, and an End at w when w is reached through the   *)
(* interior of a face; the departure is a CoincidentEdge starting at w     *)
(* when an edge on the segment leaves w, and a Start at w otherwise.  So   *)
(* an End at w followed by a Start from w occurs exactly when no edge      *)
(* lying on the segment touches w.                                         *)
C8_Passthrough ==
    Complete => \A w \in DOMAIN pos : OnSegment(w) =>
        \E i \in 1..(Len(out) - 1) :
            /\ Arrives(out[i], w) /\ Leaves(out[i + 1], w)
            /\ out[i].kind = "CoincidentEdge" <=> EdgeBehind(w)
            /\ out[i + 1].kind = "CoincidentEdge" <=> EdgeAhead(w)

C8_Witness ==
    /\ Exhausted
    /\ \E w \in DOMAIN pos : \E i \in 1..(Len(out) - 1) :
         /\ OnSegment(w) /\ ~EdgeBehind(w) /\ ~EdgeAhead(w)
         /\ out[i].kind = "End" /\ CornerOf(out[i]) = w
         /\ out[i + 1].kind = "Start" /\ CornerOf(out[i + 1]) = w

C8_WitnessEdge ==
    /\ Exhausted
    /\ \E w \in DOMAIN pos : \E i \in 1..(Len(out) - 1) :
         /\ OnSegment(w) /\ EdgeBehind(w) /\ ~EdgeAhead(w)
         /\ out[i].kind = "CoincidentEdge" /\ out[i + 1].kind = "Start"

(* The corner of face g that is on neither end of the edge named by c *)
FarCorner(g, c) == CHOOSE k \in Rot3 : vertex(faces, g, k) \notin NamedEdge(c)
(* The apex of the fan: the vertex shared by all the crossed edges.  The   *)
(* far vertex met behind the first crossed edge is the other end of the    *)
(* second one, on the opposite side of the line.                           *)
Apex == CHOOSE x \in DOMAIN pos : \A e \in CrossedEdges : x \in e

(* C9. Sign of an edge crossing: when the traversal crosses an edge into   *)
(* the neighbour face and the far vertex, at rotation k, is neither v1 nor *)
(* collinear with v0, v1, the next event is NegativeEdge at k+1 exactly    *)
(* when the far vertex is counter-clockwise of line v0->v1 and             *)
(* PositiveEdge at k-1 exactly when it is clockwise; a segment through a   *)
(* fan that crosses two edges yields Start, one signed edge, End, the sign *)
(* given by the orientation of the apex: NegativeEdge when the apex is     *)
(* clockwise of the line (the far vertex counter-clockwise), PositiveEdge  *)
(* when it is counter-clockwise.                                           *)
C9_CrossingSign ==
    Live =>
        /\ \A i \in DOMAIN out : out[i].kind \in EdgeKinds =>
             LET next == IF i = Len(out) THEN iter.current ELSE out[i + 1]
                 g == neighbor(faces, out[i].face, out[i].rot)
                 k == FarCorner(g, out[i])
                 far == vertex(faces, g, k)
                 signed == far # iter.v1 /\ is_finite_vertex(far) /\ Side(far) # 0
             IN  /\ next.kind \in SignedKinds <=> signed
                 /\ signed /\ Side(far) > 0 => next = NegativeEdge(g, increment(k))
                 /\ signed /\ Side(far) < 0 => next = PositiveEdge(g, decrement(k))
        /\ (Complete /\ Cardinality(CrossedEdges) = 2
                     /\ ~\E w \in DOMAIN pos : OnSegment(w)) =>
             /\ Len(out) = 3
             /\ out[1].kind = "Start" /\ out[3].kind = "End"
             /\ Side(Apex) # 0
             /\ out[2].kind = IF Side(Apex) < 0 THEN "NegativeEdge" ELSE "PositiveEdge"

C9_Witness ==
    /\ Exhausted /\ Cardinality(CrossedEdges) = 2
    /\ ~\E w \in DOMAIN pos : OnSegment(w)
    /\ Len(out) = 3 /\ out[2].kind = "PositiveEdge" /\ Side(Apex) > 0

AssertKinds == {"dimension", "v0 == v1", "v0 infinite", "v1 infinite"}

(* C10. Construction preconditions: constructing a CrossingIterator fails  *)
(* at once, with no search result and no traversal state, when the         *)
(* dimension is not 2, or v0 == v1, or v0 or v1 is the infinite vertex;    *)
(* no Crossing is produced.                                                *)
C10_Preconditions ==
    iter.st # "none" =>
        /\ ~ValidArgs =>
             /\ iter.st \in AssertKinds
             /\ iter.current = None /\ out = <<>> /\ nones = 0
        /\ iter.st = "dimension" <=> dim # 2
        /\ iter.st = "v0 == v1" <=> (dim = 2 /\ iter.v0 = iter.v1)
        /\ iter.st \in {"v0 infinite", "v1 infinite"} <=>
             (dim = 2 /\ iter.v0 # iter.v1
                /\ (is_infinite_vertex(iter.v0) \/ is_infinite_vertex(iter.v1)))

C10_Witness ==
    /\ iter.st = "v0 == v1" /\ is_finite_vertex(iter.v0) /\ Len(pos) = Len(Points)

C10_WitnessDimension ==
    /\ iter.st = "dimension" /\ dim = 1 /\ iter.v0 = 1 /\ iter.v1 = 2

----------------------------------------------------------------------------
(* C11. find_edge_by_vertex(a, b) returns an edge exactly when some face   *)
(* has an edge from a to b; the edge returned starts at a and ends at b,   *)
(* and it is the first met circulating counter-clockwise around a: no      *)
(* other edge from a to b exists.  Without such an edge it returns none.   *)
C11_FindEdge ==
    ret.op = "find_edge_by_vertex" =>
        LET a == ret.arg[1]
            b == ret.arg[2]
            e == ret.val
        IN  /\ e # Endless
            /\ e # NoEdge <=> Adjacent(a, b)
            /\ e # NoEdge =>
                 /\ e.face \in DOMAIN faces /\ e.edge \in Rot3
                 /\ vertex(faces, e.face, increment(e.edge)) = a
                 /\ vertex(faces, e.face, decrement(e.edge)) = b
                 /\ \A f \in DOMAIN faces : \A r \in Rot3 :
                      (vertex(faces, f, increment(r)) = a
                         /\ vertex(faces, f, decrement(r)) = b) => FaceEdge(f, r) = e

(* an edge found after the circulation has left its starting edge *)
C11_Witness ==
    /\ ret.op = "find_edge_by_vertex" /\ ret.val # NoEdge
    /\ Len(pos) = Len(Points)
    /\ ret.val # circulator_new(ret.arg[1])
    /\ is_finite_vertex(ret.arg[2])

C11_WitnessNone ==
    /\ ret.op = "find_edge_by_vertex" /\ ret.val = NoEdge
    /\ ret.arg[1] # ret.arg[2] /\ is_finite_vertex(ret.arg[2])

(* The degree of a vertex: the number of faces around it *)
Degree(base) ==
    Cardinality({f \in DOMAIN faces : \E r \in Rot3 : vertex(faces, f, r) = base})

(* C12. Circulator closure: for any vertex of degree d and any starting    *)
(* edge incident to it, d steps of advance_ccw, and likewise d steps of    *)
(* advance_cw, lead back to the starting (face, edge) and fewer steps do   *)
(* not; the d steps visit each face around the vertex exactly once, on the *)
(* edge of that face that starts at the vertex.                            *)
C12_CirculatorClosure ==
    ret.op \in {"advance_ccw", "advance_cw"} =>
        LET base == ret.arg[1]
            start == ret.arg[2]
            walked == ret.val
        IN  /\ Len(walked) = Degree(base)
            /\ walked[Len(walked)] = start
            /\ \A k \in 1..(Len(walked) - 1) : walked[k] # start
            /\ {walked[k] : k \in DOMAIN walked} = IncidentEdges(base)
            /\ \A j, k \in DOMAIN walked : j # k => walked[j].face # walked[k].face

(* a revolution of at least five steps, and one around the infinite vertex *)
C12_Witness ==
    /\ ret.op = "advance_ccw" /\ Len(ret.val) >= 5
    /\ is_finite_vertex(ret.arg[1]) /\ Last(ret.val) = ret.arg[2]

C12_WitnessInfinite ==
    /\ ret.op = "advance_cw" /\ Len(ret.val) >= 4
    /\ is_infinite_vertex(ret.arg[1]) /\ Last(ret.val) = ret.arg[2]

(* C13. opposite_edge result: in a triangulation satisfying the twin      *)
(* invariant, for every face F and rotation r, opposite_edge((F, r))       *)
(* succeeds and returns (N, r') with N the neighbour entry of F at r and   *)
(* F the neighbour entry of N at r'.                                       *)
C13_OppositeEdgeResult ==
    ret.op = "opposite_edge" =>
        LET f == ret.arg[1]
            r == ret.arg[2]
            e == ret.val
        IN  /\ e # Unwrap
            /\ e.face \in DOMAIN faces /\ e.edge \in Rot3
            /\ e.face = faces[f].n[r + 1]
            /\ faces[e.face].n[e.edge + 1] = f

(* the twin sits at another rotation than the edge asked for *)
C13_Witness ==
    /\ ret.op = "opposite_edge" /\ ret.val # Unwrap
    /\ ret.val.edge # ret.arg[2]
    /\ faces[ret.val.face].n[ret.val.edge + 1] = ret.arg[1]
    /\ Len(pos) = Len(Points) /\ edits > 0

(* face N lists face F among its three neighbours *)
Lists(graph, N, F) == \E k \in Rot3 : graph[N].n[k + 1] = F

(* C14. opposite_edge on a broken twin link: when N, the neighbour entry   *)
(* of F at r, does not list F among its three neighbours, the call         *)
(* opposite_edge((F, r)) fails, returns no FaceEdge, and leaves the        *)
(* triangulation as it was.                                                *)
C14_BrokenTwin ==
    [][ (ret'.op = "opposite_edge" /\ ret.op # "opposite_edge"
            /\ ~Lists(faces, faces[ret'.arg[1]].n[ret'.arg[2] + 1], ret'.arg[1]))
        => (/\ ret'.val = Unwrap
            /\ faces' = faces /\ pos' = pos /\ vface' = vface /\ dim' = dim) ]_vars

C14_Witness ==
    /\ ret.op = "opposite_edge" /\ ret.val = Unwrap
    /\ ~Lists(faces, faces[ret.arg[1]].n[ret.arg[2] + 1], ret.arg[1])
    /\ faces[ret.arg[1]].n[ret.arg[2] + 1] # ret.arg[1]

(* The vertex a clue names, read off the face arena: a direct index is    *)
(* itself, FaceVertex(f, r) is corner r, EdgeStart(f, e) is corner e + 1   *)
(* and EdgeEnd(f, e) corner e - 1, modulo 3.                               *)
Named(clue) ==
    CASE clue.clue = "VertexIndex" -> clue.vertex
      [] clue.clue = "FaceVertex" -> faces[clue.face].v[clue.rot + 1]
      [] clue.clue = "EdgeStart" -> faces[clue.face].v[((clue.rot + 1) % 3) + 1]
      [] clue.clue = "EdgeEnd" -> faces[clue.face].v[((clue.rot + 2) % 3) + 1]

(* C16. Vertex-clue resolution: vi of a direct index is that index; of     *)
(* FaceVertex(f, r) it is corner r of face f; of EdgeStart(f, e) corner    *)
(* e + 1 and of EdgeEnd(f, e) corner e - 1 (mod 3) of face f; for every    *)
(* edge rotation the start, the end and the opposite corner are the three  *)
(* distinct corners of the face.                                           *)
C16_ClueResolution ==
    ret.op = "vi" =>
        LET clue == ret.arg[1]
        IN  /\ ret.val = Named(clue)
            /\ clue.clue # "VertexIndex" =>
                 LET s == vi(ClueEdgeStart(clue.face, clue.rot))
                     e == vi(ClueEdgeEnd(clue.face, clue.rot))
                     o == vi(ClueFaceVertex(clue.face, clue.rot))
                 IN  /\ s # e /\ e # o /\ o # s
                     /\ {s, e, o} = {faces[clue.face].v[k] : k \in 1..3}
                     /\ ret.val \in {s, e, o}

C16_Witness ==
    /\ ret.op = "vi" /\ ret.arg[1].clue = "EdgeEnd" /\ ret.arg[1].rot = 0
    /\ ret.val = faces[ret.arg[1].face].v[3]
    /\ is_finite_vertex(ret.val) /\ Len(pos) = Len(Points)

C16_WitnessDirect ==
    /\ ret.op = "vi" /\ ret.arg[1].clue = "VertexIndex"
    /\ ret.val = Len(Points)

(* The vertex search a step of the iterator runs: the one of new, from v0, *)
(* or the one of a pull that follows an End or a CoincidentEdge.           *)
NoSearch == [run |-> FALSE, v0 |-> 0, v1 |-> 0, base |-> 0, avoid |-> 0]
VertexSearch(before, after, grown) ==
    IF before.st = "none" /\ after.st # "none"
    THEN IF new_assert(after.v0, after.v1) = "ok"
         THEN [run |-> TRUE, v0 |-> after.v0, v1 |-> after.v1,
               base |-> after.v0, avoid |-> after.v0]
         ELSE NoSearch
    ELSE IF before.st = "live" /\ (after.st # "live" \/ grown)
    THEN CASE before.current.kind = "End" ->
                [run |-> CornerOf(before.current) # before.v1,
                 v0 |-> before.v0, v1 |-> before.v1,
                 base |-> CornerOf(before.current), avoid |-> before.v0]
           [] before.current.kind = "CoincidentEdge" ->
                [run |-> EndOf(before.current) # before.v1,
                 v0 |-> before.v0, v1 |-> before.v1,
                 base |-> EndOf(before.current), avoid |-> StartOf(before.current)]
           [] OTHER -> NoSearch
    ELSE NoSearch

(* x has a position a valid triangulation cannot give it: on the line      *)
(* through v0 and v1 and at v0, at v1, or beyond v1                        *)
Corrupt(s, x) ==
    /\ is_finite_vertex(x) /\ x \notin {s.v0, s.v1, s.avoid}
    /\ Cross(pos[s.v0], pos[s.v1], pos[x]) = 0
    /\ \/ pos[x] = pos[s.v0]
       \/ pos[x] = pos[s.v1]
       \/ Dot(pos[s.v0], pos[s.v1], pos[x]) > Dot(pos[s.v0], pos[s.v1], pos[s.v1])
CorruptKinds == {"PanicFirst", "PanicSecond", "PanicAfter"}
Searched(s) ==
    circulated(s.v0, s.v1, s.base, s.avoid, "Collinear", circulator_new(s.base), LoopFuel)

(* C15. Corrupt geometry is fatal during a vertex search: when a finite    *)
(* far vertex read from the circulator, other than v0, v1 and the avoided  *)
(* start vertex, is collinear with v0, v1 and lies at v0 (First), at v1    *)
(* (Second) or beyond v1 (After), the search panics as an invalid          *)
(* triangulation and the step yields no Crossing: nothing is appended to   *)
(* the events yielded and the stored crossing is not replaced.             *)
C15_CorruptIsFatal ==
    [][ LET s == VertexSearch(iter, iter', Len(out') > Len(out))
        IN  (s.run /\ \E x \in Searched(s) : Corrupt(s, x))
            => (/\ iter'.st \in CorruptKinds
                /\ iter'.current = iter.current
                /\ out' = out /\ nones' = nones) ]_vars

(* the three failures, each met in a search *)
C15_Witness ==
    /\ iter.st = "PanicAfter" /\ iter.current.kind = "CoincidentEdge"
    /\ \E x \in DOMAIN pos :
         /\ x \notin {iter.v0, iter.v1, StartOf(iter.current)}
         /\ Adjacent(EndOf(iter.current), x)
         /\ Cross(pos[iter.v0], pos[iter.v1], pos[x]) = 0
         /\ Dot(pos[iter.v0], pos[iter.v1], pos[x])
              > Dot(pos[iter.v0], pos[iter.v1], pos[iter.v1])
C15_WitnessFirst ==
    /\ iter.st = "PanicFirst" /\ iter.current = None /\ out = <<>>
    /\ pos[iter.v0] # pos[iter.v1]
    /\ \E x \in DOMAIN pos :
         x \notin {iter.v0, iter.v1} /\ Adjacent(iter.v0, x) /\ pos[x] = pos[iter.v0]
C15_WitnessSecond ==
    /\ iter.st = "PanicSecond"
    /\ pos[iter.v0] # pos[iter.v1]
    /\ \E x \in DOMAIN pos : x \notin {iter.v0, iter.v1} /\ pos[x] = pos[iter.v1]

(* C17. The core is read-only on structure: no query or traversal step    *)
(* (vi, v, p, c, opposite_edge, find_edge_by_vertex, circulator steps,     *)
(* CrossingIterator construction and pulls) changes the vertex set, the    *)
(* face set, any face's vertex, neighbour or constraint entry, or any      *)
(* vertex; a write through p_mut changes the position of the one vertex    *)
(* its clue names and nothing else.                                        *)
C17_ReadOnly ==
    [][ (ret'.op # ret.op \/ iter' # iter \/ out' # out \/ nones' # nones)
        => (/\ faces' = faces
            /\ DOMAIN pos' = DOMAIN pos
            /\ dim' = dim
            /\ vface' = vface
            /\ IF ret'.op = "p_mut" /\ ret.op = "none"
               THEN /\ pos'[Named(ret'.arg[1])] = ret'.arg[2]
                    /\ \A w \in DOMAIN pos :
                         w # Named(ret'.arg[1]) => pos'[w] = pos[w]
               ELSE pos' = pos) ]_vars

(* a position rewritten through the end of an edge *)
C17_Witness ==
    /\ ret.op = "p_mut" /\ ret.arg[1].clue = "EdgeEnd"
    /\ pos[Named(ret.arg[1])] = ret.arg[2]
    /\ pos[Named(ret.arg[1])] # Points[Named(ret.arg[1])]
    /\ \A w \in DOMAIN pos : w # Named(ret.arg[1]) => pos[w] = Points[w]

(* a traversal pulled to its end on the triangulation it borrows *)
C17_WitnessTraversal ==
    /\ Exhausted /\ ret.op = "none" /\ Len(out) >= 3
    /\ \A w \in DOMAIN pos : pos[w] = Points[w]

(* C18, as stated. Every End event yielded by the iterator marks arrival  *)
(* at v1: its (face, vertex) corner resolves to v1.                        *)
C18_Original ==
    Live => \A i \in DOMAIN out :
                out[i].kind = "End" => CornerOf(out[i]) = iter.v1

(* C18. Every End event yielded by the iterator marks arrival at a vertex  *)
(* of the segment: its (face, vertex) corner resolves to v1 or to a vertex *)
(* that lies on the open segment between v0 and v1.                        *)
C18_EndCorner ==
    Live => \A i \in DOMAIN out :
                out[i].kind = "End" =>
                    \/ CornerOf(out[i]) = iter.v1
                    \/ OnSegment(CornerOf(out[i]))

(* a traversal pulled to its end that yielded an End at a vertex on the    *)
(* segment and, later, the End at v1                                       *)
C18_Witness ==
    /\ Exhausted
    /\ \E i, j \in DOMAIN out :
         /\ i < j
         /\ out[i].kind = "End" /\ OnSegment(CornerOf(out[i]))
         /\ out[j].kind = "End" /\ CornerOf(out[j]) = iter.v1

(* the segment, from the corner of c on, goes through the edge of the face *)
(* of c opposite that corner                                               *)
LeavesThrough(c) ==
    LET a == StartOf(c)
        b == EndOf(c)
        w == CornerOf(c)
    IN  /\ is_finite_vertex(a) /\ is_finite_vertex(b)
        /\ Side(a) * Side(b) < 0
        /\ Cross(pos[a], pos[b], pos[w]) * Cross(pos[a], pos[b], pos[iter.v1]) < 0

(* C19, as stated. Every Start event yielded by the iterator marks         *)
(* departure from v0: its (face, vertex) corner resolves to v0, and the    *)
(* segment leaves through the edge of that face opposite this corner.      *)
C19_Original ==
    Live => \A i \in DOMAIN out :
                out[i].kind = "Start" =>
                    CornerOf(out[i]) = iter.v0 /\ LeavesThrough(out[i])

(* C19. Every Start event yielded by the iterator marks departure from a   *)
(* vertex of the segment: its (face, vertex) corner resolves to v0 or to a *)
(* vertex on the open segment at which the event before it arrived, and    *)
(* the segment leaves through the edge of that face opposite this corner.  *)
C19_StartCorner ==
    Live => \A i \in DOMAIN out :
                out[i].kind = "Start" =>
                    /\ \/ CornerOf(out[i]) = iter.v0
                       \/ /\ OnSegment(CornerOf(out[i]))
                          /\ i > 1 /\ Arrives(out[i - 1], CornerOf(out[i]))
                    /\ LeavesThrough(out[i])

(* a traversal that yielded a Start at v0 and a Start at a vertex on the   *)
(* segment, reached along an edge or through a face                        *)
C19_Witness ==
    /\ Exhausted
    /\ \E i, j \in DOMAIN out :
         /\ out[i].kind = "Start" /\ CornerOf(out[i]) = iter.v0
         /\ out[j].kind = "Start" /\ OnSegment(CornerOf(out[j]))
         /\ out[j - 1].kind = "End"
C19_WitnessAfterEdge ==
    /\ Exhausted
    /\ \E j \in DOMAIN out :
         /\ j > 1
         /\ out[j].kind = "Start" /\ OnSegment(CornerOf(out[j]))
         /\ out[j - 1].kind = "CoincidentEdge"

(* The event that follows the i-th event yielded: the next one yielded,   *)
(* or the one the iterator holds for the next pull.                        *)
NextOf(i) == IF i < Len(out) THEN out[i + 1] ELSE iter.current

(* C25. Transition out of an edge event: whenever the current event is     *)
(* Start, PositiveEdge or NegativeEdge, the search for the next event      *)
(* succeeds, the next event is an End, a PositiveEdge or a NegativeEdge    *)
(* (never Start, CoincidentEdge or none), and the face it names is the     *)
(* neighbour of the current face across the named rotation.                *)
C25_EdgeTransition ==
    (iter.st # "none" /\ ValidArgs) =>
        /\ iter.current.kind \in EdgeKinds => Live
        /\ \A i \in DOMAIN out :
             out[i].kind \in EdgeKinds =>
                /\ NextOf(i).kind \in {"End"} \cup SignedKinds
                /\ NextOf(i).face = neighbor(faces, out[i].face, out[i].rot)

(* a Start followed by a signed edge, a signed edge by a signed edge, and  *)
(* a signed edge by an End                                                 *)
C25_Witness ==
    /\ Exhausted
    /\ \E i, j, k \in DOMAIN out :
         /\ out[i].kind = "Start" /\ NextOf(i).kind \in SignedKinds
         /\ out[j].kind \in SignedKinds /\ NextOf(j).kind \in SignedKinds
         /\ out[k].kind \in SignedKinds /\ NextOf(k).kind = "End"
C25_WitnessStartEnd ==
    /\ Exhausted
    /\ \E i \in DOMAIN out : out[i].kind = "Start" /\ NextOf(i).kind = "End"

(* C26. Transition out of a CoincidentEdge: the event after a              *)
(* CoincidentEdge is the result of the vertex search based at the edge's   *)
(* end vertex that avoids the edge's start vertex; it is none exactly when *)
(* that end vertex is v1, and otherwise it is a Start or a CoincidentEdge  *)
(* departing from the end vertex, never an edge leading back to the start  *)
(* vertex or to v0.                                                        *)
C26_CoincidentTransition ==
    (iter.st # "none" /\ ValidArgs) =>
        /\ iter.current.kind = "CoincidentEdge" => Live
        /\ \A i \in DOMAIN out :
             out[i].kind = "CoincidentEdge" =>
                LET w == EndOf(out[i])
                    n == NextOf(i)
                IN  /\ n = search_vertex(iter.v0, iter.v1, w, StartOf(out[i]))
                    /\ n = None <=> w = iter.v1
                    /\ n # None =>
                         /\ n.kind \in {"Start", "CoincidentEdge"}
                         /\ Leaves(n, w)
                         /\ n.kind = "CoincidentEdge" =>
                              EndOf(n) \notin {StartOf(out[i]), iter.v0}

(* an edge that does not start at v0 followed by another edge, an edge     *)
(* followed by a Start, and the edge that ends the traversal at v1         *)
C26_Witness ==
    /\ Exhausted
    /\ \E i \in DOMAIN out :
         /\ out[i].kind = "CoincidentEdge" /\ StartOf(out[i]) # iter.v0
         /\ NextOf(i).kind = "CoincidentEdge"
    /\ Last(out).kind = "CoincidentEdge" /\ EndOf(Last(out)) = iter.v1
C26_WitnessStart ==
    /\ Exhausted
    /\ \E i \in DOMAIN out :
         out[i].kind = "CoincidentEdge" /\ NextOf(i).kind = "Start"

(* the vertex the search that returned the i-th event was based at *)
BaseOf(i) ==
    IF i = 1 THEN iter.v0
    ELSE IF out[i - 1].kind = "CoincidentEdge" THEN EndOf(out[i - 1])
    ELSE CornerOf(out[i - 1])

(* C27. Every CoincidentEdge yielded names an existing edge lying on       *)
(* segment(v0, v1): it is returned by a vertex search, its start vertex is *)
(* the vertex that search was based at, and its end vertex is either v1 or *)
(* a finite vertex collinear with v0, v1 and strictly between them, never  *)
(* v0 and never the infinite vertex; the end lies further along the        *)
(* segment than the start.                                                 *)
C27_CoincidentEdge ==
    Live => \A i \in DOMAIN out :
        out[i].kind = "CoincidentEdge" =>
            LET a == StartOf(out[i])
                b == EndOf(out[i])
            IN  /\ out[i].face \in DOMAIN faces /\ out[i].rot \in Rot3
                /\ i > 1 => out[i - 1].kind \in {"End", "CoincidentEdge"}
                /\ a = BaseOf(i)
                /\ a = iter.v0 \/ OnSegment(a)
                /\ is_finite_vertex(b) /\ b # iter.v0
                /\ b = iter.v1 \/ OnSegment(b)
                /\ Dot(pos[iter.v0], pos[iter.v1], pos[a])
                     < Dot(pos[iter.v0], pos[iter.v1], pos[b])

(* an edge between two vertices that both lie strictly between v0 and v1, *)
(* and an edge that starts at a vertex reached through a face              *)
C27_Witness ==
    /\ Exhausted
    /\ \E i \in DOMAIN out :
         /\ out[i].kind = "CoincidentEdge"
         /\ OnSegment(StartOf(out[i])) /\ OnSegment(EndOf(out[i]))
C27_WitnessAfterEnd ==
    /\ Exhausted
    /\ \E i \in DOMAIN out :
         /\ i > 1 /\ out[i].kind = "CoincidentEdge" /\ out[i - 1].kind = "End"
         /\ OnSegment(StartOf(out[i]))
C27_WitnessChain ==
    /\ Exhausted /\ Len(out) = 3
    /\ \A i \in DOMAIN out : out[i].kind = "CoincidentEdge"

(* C28. find_edge_by_vertex always terminates: for every finite vertex a   *)
(* and every b (b not adjacent to a, b = a and the infinite vertex         *)
(* included) it returns after at most degree(a) circulator steps; it       *)
(* returns none exactly after degree(a) steps, when the circulation is     *)
(* back at its starting edge, and an edge after fewer steps.               *)
C28_FindEdgeTerminates ==
    ret.op = "find_edge_by_vertex" =>
        LET a == ret.arg[1]
            b == ret.arg[2]
            n == find_edge_count(a, b)
        IN  /\ ret.val # Endless
            /\ n >= 0 /\ n <= Degree(a)
            /\ ret.val = NoEdge <=> n = Degree(a)

(* a search for a itself around a vertex of degree five or more, and an    *)
(* edge found on the last step before the circulation closes               *)
C28_Witness ==
    /\ ret.op = "find_edge_by_vertex" /\ ret.arg[1] = ret.arg[2]
    /\ ret.val = NoEdge
    /\ Degree(ret.arg[1]) >= 5
    /\ find_edge_count(ret.arg[1], ret.arg[2]) = Degree(ret.arg[1])
C28_WitnessLast ==
    /\ ret.op = "find_edge_by_vertex" /\ ret.val # NoEdge
    /\ Degree(ret.arg[1]) >= 4
    /\ find_edge_count(ret.arg[1], ret.arg[2]) = Degree(ret.arg[1]) - 1

(* the start vertex avoided by the search that returned the i-th event *)
AvoidOf(i) ==
    IF i > 1 /\ out[i - 1].kind = "CoincidentEdge"
    THEN StartOf(out[i - 1]) ELSE iter.v0

(* The vertex searches of a traversal: the i-th event, a Start or a        *)
(* CoincidentEdge, was returned by the search based at BaseOf(i).          *)
SearchesRun == {i \in DOMAIN out : out[i].kind \in {"Start", "CoincidentEdge"}}

(* C29. Every vertex search terminates on a valid triangulation: started   *)
(* at any edge incident to its base vertex, each vertex search of a        *)
(* traversal returns after at most one revolution around the base vertex   *)
(* plus one step back: the skip of the edges whose far vertex is infinite  *)
(* or v0 does not make it oscillate, and the orientation flips, or an edge *)
(* on the segment is met, before the circulation is back at the first edge *)
(* examined.                                                               *)
C29_SearchTerminates ==
    Live => \A i \in SearchesRun : \A e \in IncidentEdges(BaseOf(i)) :
        LET n == search_vertex_steps(iter.v0, iter.v1, BaseOf(i), AvoidOf(i),
                                     "Collinear", e, 0, LoopFuel)
        IN  n >= 0 /\ n <= Degree(BaseOf(i)) + 1

(* a search based at a hull vertex that lies on the segment, which avoids  *)
(* the vertex it came from and skips the infinite vertex, and one that     *)
(* takes as many steps as the base vertex has edges                        *)
C29_Witness ==
    /\ Exhausted
    /\ \E i \in SearchesRun :
         /\ i > 1 /\ AvoidOf(i) # iter.v0
         /\ Adjacent(BaseOf(i), Infinite)
         /\ \E e \in IncidentEdges(BaseOf(i)) :
              /\ is_infinite_vertex(end_vertex(e))
              /\ search_vertex_steps(iter.v0, iter.v1, BaseOf(i), AvoidOf(i),
                                     "Collinear", e, 0, LoopFuel) >= 2
C29_WitnessLong ==
    /\ Exhausted
    /\ \E i \in SearchesRun : \E e \in IncidentEdges(BaseOf(i)) :
         /\ Degree(BaseOf(i)) >= 5
         /\ search_vertex_steps(iter.v0, iter.v1, BaseOf(i), AvoidOf(i),
                                "Collinear", e, 0, LoopFuel) >= Degree(BaseOf(i)) - 1

(* x is a finite vertex behind the search: on the line through v0 and v1  *)
(* before v0, or the start vertex the search avoids                        *)
Backward(i, x) ==
    /\ is_finite_vertex(x) /\ x \notin {iter.v0, iter.v1}
    /\ \/ x = AvoidOf(i)
       \/ /\ Cross(pos[iter.v0], pos[iter.v1], pos[x]) = 0
          /\ Dot(pos[iter.v0], pos[iter.v1], pos[x]) < 0
BackwardEdges(i) ==
    {e \in IncidentEdges(BaseOf(i)) : Backward(i, end_vertex(e))}

(* C30. A backward collinear edge is tolerated, not reported: in a vertex  *)
(* search, a finite far vertex that is collinear with v0, v1 and lies      *)
(* before v0, or that equals the avoided start vertex, is classified as    *)
(* counter-clockwise; the search started at its edge raises no failure,    *)
(* does not return that edge as a CoincidentEdge, and goes on as the       *)
(* search circulating clockwise from the next edge clockwise does, to      *)
(* the event the traversal yielded; started at any other edge around the   *)
(* base vertex the search returns that same event, so a backward vertex    *)
(* never ends it.                                                          *)
C30_BackwardTolerated ==
    Live => \A i \in SearchesRun : \A e \in BackwardEdges(i) :
        LET base == BaseOf(i)
            r == search_vertex_loop(iter.v0, iter.v1, base, AvoidOf(i),
                                    "Collinear", e, LoopFuel)
        IN  /\ far_orientation(iter.v0, iter.v1, end_vertex(e), AvoidOf(i)) = "CCW"
            /\ r.kind \in {"Start", "CoincidentEdge"}
            /\ r # CoincidentEdge(e.face, e.edge)
            /\ r = search_vertex_loop(iter.v0, iter.v1, base, AvoidOf(i),
                                      "CCW", advance_cw(e, base), LoopFuel - 1)
            /\ r = out[i]
            /\ \A d \in IncidentEdges(base) :
                 search_vertex_loop(iter.v0, iter.v1, base, AvoidOf(i),
                                    "Collinear", d, LoopFuel) = r

(* a search from v0 that has a vertex behind v0 on the line, and a search  *)
(* that avoids a start vertex lying strictly between v0 and v1             *)
C30_Witness ==
    /\ Exhausted
    /\ \E e \in BackwardEdges(1) :
         /\ end_vertex(e) # AvoidOf(1)
         /\ circulator_new(iter.v0) = e
C30_WitnessAvoided ==
    /\ Exhausted
    /\ \E i \in SearchesRun : \E e \in BackwardEdges(i) :
         /\ end_vertex(e) = AvoidOf(i) /\ OnSegment(AvoidOf(i))
         /\ circulator_new(BaseOf(i)) = e

----------------------------------------------------------------------------
(* The vertex searches of a whole traversal, the one that returned the     *)
(* event held as the lookahead included                                    *)
SearchesOf(events) ==
    {i \in DOMAIN events : events[i].kind \in {"Start", "CoincidentEdge"}}

(* the i-th event of the traversal when the circulator of the search that  *)
(* returns it starts at the edge start around the base vertex of that      *)
(* search                                                                  *)
EventFrom(i, start) ==
    search_vertex_loop(iter.v0, iter.v1, BaseOf(i), AvoidOf(i), "Collinear",
                       start, LoopFuel)

(* C38: independence from the circulation start.  For a valid              *)
(* triangulation and fixed v0, v1 the sequence of events yielded does not  *)
(* depend on the incident edge a circulator starts from: the search        *)
(* around v0, and the search around each intermediate vertex the segment   *)
(* passes through, returns the event of the traversal whichever edge       *)
(* around its base vertex the circulator is started at, be it an edge to   *)
(* the infinite vertex, a backward collinear edge, or an edge to the left  *)
(* or to the right of the line through v0 and v1; every later event is     *)
(* computed from the event before it alone, so the whole sequence is the   *)
(* same.  Stated of the traversal at the moment its last event has been    *)
(* pulled, when out holds the whole sequence.                              *)
C38_StartIndependent ==
    (Complete /\ nones = 0 /\ ValidArgs) =>
        /\ \A i \in SearchesOf(out) : \A e \in IncidentEdges(BaseOf(i)) :
             EventFrom(i, e) = out[i]
        /\ \A i \in DOMAIN out \ SearchesOf(out) :
             i > 1 /\ out[i] = advance(iter.v0, iter.v1, out[i - 1])
        /\ advance(iter.v0, iter.v1, out[Len(out)]) = None

(* the kinds of edge around the base vertex of the i-th search a           *)
(* circulator can start at, other than the one the traversal started at    *)
OtherStarts(i) == IncidentEdges(BaseOf(i)) \ {circulator_new(BaseOf(i))}
StartsInfinite(i) == \E e \in OtherStarts(i) : is_infinite_vertex(end_vertex(e))
StartsBackward(i) == \E e \in OtherStarts(i) : e \in BackwardEdges(i)
StartsLeft(i) ==
    \E e \in OtherStarts(i) : is_finite_vertex(end_vertex(e)) /\ Side(end_vertex(e)) > 0
StartsRight(i) ==
    \E e \in OtherStarts(i) : is_finite_vertex(end_vertex(e)) /\ Side(end_vertex(e)) < 0

(* a traversal whose search around v0 can start on an edge to the infinite *)
(* vertex and on either side of the line                                   *)
C38_Witness ==
    /\ Complete /\ nones = 0 /\ ValidArgs /\ Len(out) >= 2
    /\ StartsInfinite(1) /\ StartsLeft(1) /\ StartsRight(1)
(* one whose search around v0 can start on a backward collinear edge and   *)
(* on either side of the line                                              *)
C38_WitnessBackward ==
    /\ Complete /\ nones = 0 /\ ValidArgs /\ Len(out) >= 2
    /\ \E e \in OtherStarts(1) : e \in BackwardEdges(1) /\ end_vertex(e) # AvoidOf(1)
    /\ StartsLeft(1) /\ StartsRight(1)
(* one with a search around an intermediate vertex on the segment that     *)
(* can start on either side of the line                                    *)
C38_WitnessIntermediate ==
    /\ Complete /\ nones = 0 /\ ValidArgs
    /\ \E i \in SearchesOf(out) :
         /\ i > 1 /\ OnSegment(BaseOf(i))
         /\ StartsLeft(i) /\ StartsRight(i)
(* and one with a search around an intermediate vertex that can start on   *)
(* the edge back to the vertex the traversal came from and on an edge off  *)
(* the line                                                                *)
C38_WitnessIntermediateBackward ==
    /\ Complete /\ nones = 0 /\ ValidArgs
    /\ \E i \in SearchesOf(out) :
         /\ i > 1 /\ OnSegment(BaseOf(i))
         /\ StartsBackward(i)
         /\ StartsLeft(i) \/ StartsRight(i)

----------------------------------------------------------------------------
(* C35: the twin names the same undirected edge, reversed.  For every     *)
(* edge (F, r) of a valid triangulation with twin T = opposite_edge((F,   *)
(* r)), the start of T resolves to the end of (F, r) and the end of T to   *)
(* the start of (F, r), although the rotation of T is found as the first   *)
(* position of the neighbour that lists F.                                 *)
C35_TwinReversed ==
    ret.op = "opposite_edge" =>
        LET f == ret.arg[1]
            r == ret.arg[2]
            T == ret.val
        IN  /\ T # Unwrap
            /\ vi(ClueEdgeStart(T.face, T.edge)) = vi(ClueEdgeEnd(f, r))
            /\ vi(ClueEdgeEnd(T.face, T.edge)) = vi(ClueEdgeStart(f, r))
            /\ T.edge = get_neighbor_index(faces, T.face, f)

(* the twin of a finite edge, at another rotation than the edge, in a      *)
(* triangulation of all the points after a flip                            *)
C35_Witness ==
    /\ ret.op = "opposite_edge" /\ ret.val # Unwrap
    /\ ret.val.edge # ret.arg[2]
    /\ is_finite_vertex(vi(ClueEdgeStart(ret.arg[1], ret.arg[2])))
    /\ is_finite_vertex(vi(ClueEdgeEnd(ret.arg[1], ret.arg[2])))
    /\ vi(ClueEdgeStart(ret.val.face, ret.val.edge)) = vi(ClueEdgeEnd(ret.arg[1], ret.arg[2]))
    /\ Len(pos) = Len(Points) /\ edits > 0

(* the twin of an edge that ends at the infinite vertex *)
C35_WitnessInfinite ==
    /\ ret.op = "opposite_edge" /\ ret.val # Unwrap
    /\ is_infinite_vertex(vi(ClueEdgeEnd(ret.arg[1], ret.arg[2])))
    /\ is_infinite_vertex(vi(ClueEdgeStart(ret.val.face, ret.val.edge)))

(* The circulators find_edge_by_vertex may start from at b: the one the    *)
(* face of a finite vertex gives, any edge around the infinite vertex      *)
StartsAt(b) ==
    IF is_finite_vertex(b) THEN {circulator_new(b)} ELSE IncidentEdges(b)

(* C36: edge lookup is symmetric up to the twin.  On a valid              *)
(* triangulation, whenever find_edge_by_vertex(a, b) returns an edge e,    *)
(* find_edge_by_vertex(b, a) returns opposite_edge(e), and the one returns *)
(* none exactly when the other does.                                       *)
C36_LookupSymmetric ==
    ret.op = "find_edge_by_vertex" =>
        LET a == ret.arg[1]
            b == ret.arg[2]
            e == ret.val
        IN  \A s \in StartsAt(b) :
                LET back == find_edge_from(b, a, s)
                IN  /\ e # NoEdge => back = opposite_edge(e)
                    /\ e = NoEdge <=> back = NoEdge

(* an edge between two finite vertices, found in both directions after     *)
(* each circulation has left the edge it started at                        *)
C36_Witness ==
    /\ ret.op = "find_edge_by_vertex" /\ ret.val # NoEdge
    /\ is_finite_vertex(ret.arg[2])
    /\ ret.val # circulator_new(ret.arg[1])
    /\ find_edge_by_vertex(ret.arg[2], ret.arg[1]) # circulator_new(ret.arg[2])
    /\ find_edge_by_vertex(ret.arg[2], ret.arg[1]) = opposite_edge(ret.val)
    /\ Len(pos) = Len(Points)

(* no edge in either direction between two finite vertices *)
C36_WitnessNone ==
    /\ ret.op = "find_edge_by_vertex" /\ ret.val = NoEdge
    /\ is_finite_vertex(ret.arg[2]) /\ ret.arg[1] # ret.arg[2]
    /\ find_edge_by_vertex(ret.arg[2], ret.arg[1]) = NoEdge
    /\ Len(pos) = Len(Points)

(* an edge to the infinite vertex and its twin found around it *)
C36_WitnessInfinite ==
    /\ ret.op = "find_edge_by_vertex" /\ ret.val # NoEdge
    /\ is_infinite_vertex(ret.arg[2])
    /\ \A s \in StartsAt(ret.arg[2]) :
         find_edge_from(ret.arg[2], ret.arg[1], s) = opposite_edge(ret.val)

----------------------------------------------------------------------------
(* The circulator states of a revolution around base: the edge it was      *)
(* started at and the edges after each step                                *)
Revolved == {ret.arg[2]} \cup Range(ret.val)

(* e is an edge of a face incident to base that starts at base, and the    *)
(* circulator on it reports the end of that edge                           *)
AroundBase(e, base) ==
    /\ e.face \in DOMAIN faces /\ e.edge \in Rot3
    /\ \E r \in Rot3 : vertex(faces, e.face, r) = base
    /\ vi(ClueEdgeStart(e.face, e.edge)) = base
    /\ end_vertex(e) = vi(ClueEdgeEnd(e.face, e.edge))
    /\ end_vertex(e) # base

(* C33: circulator invariant.  After construction and after any sequence   *)
(* of advance_cw and advance_ccw steps on a valid triangulation the        *)
(* current (face, edge) is an edge of a face incident to the base vertex,  *)
(* its start resolves to the base vertex and end_vertex() is the resolved  *)
(* end of that edge; every step succeeds.                                  *)
C33_CirculatorInvariant ==
    ret.op \in {"advance_ccw", "advance_cw"} =>
        LET base == ret.arg[1] IN
        /\ is_finite_vertex(base) => AroundBase(circulator_new(base), base)
        /\ \A e \in Revolved :
             /\ AroundBase(e, base)
             /\ AroundBase(advance_cw(e, base), base)
             /\ AroundBase(advance_ccw(e, base), base)

(* a revolution around a finite vertex of degree five or more that passes  *)
(* an edge to the infinite vertex                                          *)
C33_Witness ==
    /\ ret.op = "advance_cw" /\ Len(ret.val) >= 5
    /\ is_finite_vertex(ret.arg[1])
    /\ \E e \in Revolved : is_infinite_vertex(end_vertex(e))
    /\ \A e \in Revolved : AroundBase(e, ret.arg[1])

(* a revolution around the infinite vertex *)
C33_WitnessInfinite ==
    /\ ret.op = "advance_ccw" /\ Len(ret.val) >= 4
    /\ is_infinite_vertex(ret.arg[1])
    /\ \A e \in Revolved : AroundBase(e, ret.arg[1])

(* C34: advance_cw and advance_ccw are mutual inverses.  From any          *)
(* circulator state on a valid triangulation advance_ccw followed by       *)
(* advance_cw, and advance_cw followed by advance_ccw, restores the same   *)
(* (face, edge); the vertex search steps back one edge in this way after   *)
(* the orientation has flipped while it advanced counter-clockwise.        *)
C34_MutualInverses ==
    ret.op \in {"advance_ccw", "advance_cw"} =>
        LET base == ret.arg[1] IN
        \A e \in Revolved :
            /\ advance_cw(advance_ccw(e, base), base) = e
            /\ advance_ccw(advance_cw(e, base), base) = e
            /\ advance_ccw(e, base) # e

(* every state of a counter-clockwise revolution of five or more steps     *)
(* around a finite vertex is restored by a step forth and a step back      *)
C34_Witness ==
    /\ ret.op = "advance_ccw" /\ Len(ret.val) >= 5
    /\ is_finite_vertex(ret.arg[1])
    /\ Len(pos) = Len(Points) /\ edits > 0
    /\ \A e \in Revolved :
         advance_cw(advance_ccw(e, ret.arg[1]), ret.arg[1]) = e

----------------------------------------------------------------------------
(* C31: no fatal path on valid input.  For every valid 2-dimensional       *)
(* triangulation and every pair of distinct finite vertices, constructing  *)
(* the CrossingIterator and pulling it until it returns none never fails:  *)
(* not at the neighbour-index lookup of the edge search, not with the      *)
(* First, Second or After panics, not in a search that does not return,    *)
(* and never with a position read of the infinite vertex.                  *)
C31_NoFatalPath ==
    (iter.st # "none" /\ ValidArgs) =>
        /\ iter.st \notin PanicKinds \cup AssertKinds \cup {"Diverge"}
        /\ ~Failed(iter.current)
        /\ \A i \in DOMAIN out : ~Failed(out[i])
        /\ ~Failed(advance(iter.v0, iter.v1, iter.current))

(* a drained traversal of four events or more that crossed edges from a    *)
(* start at a hull vertex, where the circulation meets the infinite vertex *)
C31_Witness ==
    /\ Exhausted /\ Len(out) >= 4
    /\ Adjacent(iter.v0, Infinite)
    /\ \E i \in DOMAIN out : out[i].kind \in SignedKinds

(* a drained traversal from a vertex that has a neighbour behind it on the *)
(* line                                                                    *)
C31_WitnessBackward ==
    /\ Exhausted /\ Len(out) >= 2
    /\ \E x \in DOMAIN pos :
         /\ Adjacent(iter.v0, x)
         /\ Cross(pos[iter.v0], pos[iter.v1], pos[x]) = 0
         /\ Dot(pos[iter.v0], pos[iter.v1], pos[x]) < 0

(* The iterator is pulled in this step *)
Pulled == iter.st = "live" /\ (iter' # iter \/ out' # out \/ nones' # nones)

(* C32: one-shot, fused iteration with a single lookahead.  The first      *)
(* pull returns the crossing computed at construction, each later pull     *)
(* returns the crossing computed during the pull before it, and once a     *)
(* pull has returned none every later pull returns none, with no search    *)
(* run: the iterator is left as it is.                                     *)
C32_Lookahead ==
    [][ /\ (iter.st = "none" /\ iter'.st = "live") =>
              /\ out' = <<>> /\ nones' = 0
              /\ ~Failed(iter'.current)
        /\ Pulled =>
              /\ iter'.st = "live"
              /\ iter'.v0 = iter.v0 /\ iter'.v1 = iter.v1
              /\ IF iter.current = None
                 THEN out' = out /\ nones' = nones + 1 /\ iter' = iter
                 ELSE out' = Append(out, iter.current) /\ nones' = nones
              /\ nones > 0 => iter.current = None ]_vars

(* two pulls have returned none after a traversal of three events or more *)
C32_Witness == Live /\ nones = 2 /\ Len(out) >= 3 /\ iter.current = None

(* the first pull has returned the crossing computed at construction and   *)
(* has computed the next one                                               *)
C32_WitnessFirst ==
    /\ Live /\ Len(out) = 1 /\ out[1].kind = "Start"
    /\ iter.current.kind \in SignedKinds

----------------------------------------------------------------------------
(* The events of a traversal so far: those yielded and the one stored *)
Events == IF iter.current = None THEN out ELSE Append(out, iter.current)

(* The distance of a vertex from v0 along the segment, in units of the     *)
(* segment's length squared                                                *)
Progress(w) == Dot(pos[iter.v0], pos[iter.v1], pos[w])

(* C37: monotone progress.  Within one traversal on a valid triangulation  *)
(* no (face, rotation) pair is named by two events, no face is named by    *)
(* two events, so that none is entered twice, and the vertices the         *)
(* searches of the traversal are based at, v0 and then the collinear       *)
(* vertices met, lie at strictly increasing distance from v0 along the     *)
(* segment.                                                                *)
C37_MonotoneProgress ==
    (Live /\ ValidArgs) =>
        \A i, j \in DOMAIN Events : i < j =>
            /\ <<Events[i].face, Events[i].rot>> # <<Events[j].face, Events[j].rot>>
            /\ Events[i].face # Events[j].face
            /\ (Events[i].kind \in {"Start", "CoincidentEdge"}
                  /\ Events[j].kind \in {"Start", "CoincidentEdge"}) =>
                 /\ Progress(BaseOf(i)) < Progress(BaseOf(j))
                 /\ Progress(BaseOf(j)) < Progress(iter.v1)
                 /\ Side(BaseOf(j)) = 0

(* a drained traversal with searches based at v0 and at two vertices on    *)
(* the segment                                                             *)
C37_Witness ==
    /\ Exhausted /\ Len(out) >= 3
    /\ Cardinality({BaseOf(i) : i \in SearchesRun}) >= 3

(* a drained traversal that crossed edges and then went on from a vertex   *)
(* on the segment                                                          *)
C37_WitnessCrossing ==
    /\ Exhausted
    /\ \E i, j \in DOMAIN out :
         /\ i < j /\ out[i].kind \in SignedKinds /\ out[j].kind = "Start"
         /\ Progress(BaseOf(j)) > 0

----------------------------------------------------------------------------
(* The unnamed store *)

(* The entries the store holds: finalized resources and pending requests *)
StoreLeft == Range(resources) \cup Range(requests)

(* No entry is deallocated while an Index of it is alive *)
NoLiveDeallocated == \A e \in EntryIds : indices[e] > 0 => arena[e].used

(* Every entry the store holds has a counter above zero *)
AllReferenced == \A e \in StoreLeft : arena[e].ref_count > 0

(* drain_unused returns in this step *)
DrainReturns == drain.pc # "done" /\ drain'.pc = "done"

C23_WitnessBoth ==
    /\ drain.pc = "done"
    /\ \E e \in Range(resources) : arena[e].ref_count > drain.seen[e]
    /\ drain.gone # {}
    /\ requests = <<>>

(* C39: at every point the ref_count of an entry is the number of live     *)
(* Index handles that point to it: add returns the first handle with       *)
(* count 1, clone adds one, drop subtracts one, whatever the interleaving   *)
(* of clones and drops with the steps of the thread that holds a guard;    *)
(* the counter never wraps below zero                                      *)
C39_RefCount ==
    /\ \A e \in EntryIds :
         /\ arena[e].used => arena[e].ref_count = indices[e]
         /\ ~arena[e].used => indices[e] = 0
         /\ arena[e].ref_count <= MaxIndices
    /\ \A e \in StoreLeft : arena[e].used

(* An entry has two handles after a clone while a drain is between the     *)
(* load and the decision for another entry, whose handles are all dropped  *)
C39_Witness ==
    /\ drain.pc \in {"resources", "requests"}
    /\ drain.rc # NotLoaded
    /\ \E e \in StoreLeft : arena[e].ref_count = 2 /\ indices[e] = 2
    /\ \E e \in StoreLeft : arena[e].ref_count = 0 /\ indices[e] = 0

(* Under a read guard add has returned the first handle of an entry,     *)
(* while another entry has two handles                                     *)
C39_WitnessAdd ==
    /\ guard = "read"
    /\ requests # <<>>
    /\ arena[requests[Len(requests)]].ref_count = 1
    /\ indices[requests[Len(requests)]] = 1
    /\ \E e \in StoreLeft : indices[e] = 2

----------------------------------------------------------------------------
(* The sparse matrix *)

Occupied == { rc \in Slots : added[rc] # Absent }

(* The matrix reads as the map the client built *)
ReadsAsMap ==
    /\ \A rc \in Slots :
         /\ smat_get(SMat, rc[1], rc[2]) = added[rc]
         /\ smat_contains(SMat, rc[1], rc[2]) <=> rc \in Occupied
    /\ nnz = Cardinality(Occupied)

(* What a call of the matrix returns and does to nnz, against the map the  *)
(* client had built before the call                                        *)
CallAsMap ==
    LET called == ret' # ret \/ added' # added
        rc == <<ret'.arg[1], ret'.arg[2]>>
    IN  /\ (called /\ ret'.op = "add") =>
              /\ ret'.val = added[rc]
              /\ nnz' = IF rc \in Occupied THEN nnz ELSE nnz + 1
              /\ added'[rc] = Some(ret'.arg[3])
        /\ (called /\ ret'.op = "remove") =>
              /\ ret'.val = added[rc]
              /\ nnz' = IF rc \in Occupied THEN nnz - 1 ELSE nnz
        /\ (called /\ ret'.op = "clear") => nnz' = 0 /\ added' = NoneAdded
        /\ (called /\ ret'.op = "get") => ret'.val = added[rc]
        /\ (called /\ ret'.op = "contains") => ret'.val = (rc \in Occupied)
        /\ (called /\ ret'.op = "nnz") => ret'.val = Cardinality(Occupied)

C24_WitnessRemove ==
    /\ ret.op = "remove" /\ ret.val # Absent
    /\ ret.arg[1] = 4 /\ 4 \in outer_mask
    /\ added[<<0, 0>>] # Absent
    /\ nnz = 3

(* The matrix was cleared when it held every slot *)
C24_WitnessClear == ret.op = "clear" /\ nnz = 0 /\ added = NoneAdded

----------------------------------------------------------------------------
(* Structural validity, used to cross-check the builder *)

TwinInvariant ==
    \A f \in DOMAIN faces : \A r \in Rot3 :
        LET g == neighbor(faces, f, r)
            s == get_neighbor_index(faces, g, f)
        IN  /\ g \in DOMAIN faces
            /\ s # NoRot
            /\ neighbor(faces, g, s) = f
            /\ vertex(faces, g, increment(s)) = vertex(faces, f, decrement(r))
            /\ vertex(faces, g, decrement(s)) = vertex(faces, f, increment(r))

FacesCCW ==
    \A f \in DOMAIN faces :
        IsFiniteFace(faces, f) =>
            orientation_triangle(P(vertex(faces, f, 0)), P(vertex(faces, f, 1)),
                                 P(vertex(faces, f, 2))) = "CCW"

VFaceOk ==
    dim = 2 => \A v \in DOMAIN pos :
        vface[v] \in DOMAIN faces /\ get_vertex_index(faces, vface[v], v) # NoRot

BuildOk == TwinInvariant /\ FacesCCW /\ VFaceOk
====
